---------------------------- MODULE Spec2Model ----------------------------
(***************************************************************************)
(* A model of eslint-plugin-tailwind-modifier-groups: the class parser,    *)
(* the modifier classifier and comparator, the class grouper, and the      *)
(* analysis and rewrite of class-function calls.                           *)
(*                                                                         *)
(* A JavaScript string is a sequence of one-character strings, so that     *)
(* splitting, escaping and comparison are computed character by character. *)
(***************************************************************************)
EXTENDS Integers, Sequences, FiniteSets, TLC

VARIABLES
    raw,        \* parser: the string handed to parseClass / parseClasses
    token,      \* parser: result of parseClass(raw)
    tokens,     \* parser: result of parseClasses(raw)
    ppc,        \* parser: "type" while raw is typed, then "parsed"
    ma, mb, mc, \* comparator: three modifiers (string | null)
    cmp,        \* comparator: results of compareModifiers on the pairs
    cpc,        \* comparator: "chosen", then "compared"
    sclasses,   \* sorter: the class names handed to sortClassesByModifierGroups
    canon,      \* sorter: its result
    recanon,    \* sorter: its result on the flattened classes of canon, or on shuffled
    shuffled,   \* sorter: sclasses with two neighbouring classes exchanged
    spc,        \* sorter: "collect", "sorted", "resorted"
    args,       \* rule: node.arguments of the call expression under analysis
    report,     \* rule: what handleStandardFunctionCall passed to context.report
    fix,        \* rule: what generateFunctionCallFix returns for the call
    after,      \* rule: node.arguments once the fix text has replaced them
    phase,      \* rule: "edit", "linted", "fixed"
    visited,    \* listeners: the CallExpression or JSXAttribute node visited
    given,      \* listeners: context.options[0]
    reports,    \* listeners: what the listener passed to context.report, in order
    rewritten,  \* listeners: the node once the fix of one report is applied
    detected,   \* listeners: pattern.type for a call the listener handles
    applied,    \* listeners: which report's fix was applied
    vpc         \* listeners: "parsed", "visited", "fixed"

parserVars == <<raw, token, tokens, ppc>>
comparatorVars == <<ma, mb, mc, cmp, cpc>>
sorterVars == <<sclasses, canon, recanon, shuffled, spc>>
ruleVars == <<args, report, fix, after, phase>>
nodeVars == <<visited, given, detected, reports, rewritten, applied, vpc>>
vars == <<raw, token, tokens, ppc, ma, mb, mc, cmp, cpc,
          sclasses, canon, recanon, shuffled, spc, args, report, fix, after, phase,
          visited, given, detected, reports, rewritten, applied, vpc>>

----------------------------------------------------------------------------
(* Strings *)

\* the value null of a string-or-null; no string has an element of length 4
Null == <<"null">>

\* characters matched by \s and removed by String.prototype.trim (the ones modelled)
Whitespace == {" ", "\t", "\n"}

Range(s) == {s[i] : i \in 1..Len(s)}

\* s.slice(i) with a 1-based first index
Drop(s, i) == SubSeq(s, i, Len(s))

\* String.prototype.lastIndexOf for a single character: 0 when absent (JS: -1)
LastIndexOf(s, c) ==
    IF \E i \in 1..Len(s) : s[i] = c
    THEN CHOOSE i \in 1..Len(s) : s[i] = c /\ \A j \in (i+1)..Len(s) : s[j] # c
    ELSE 0

\* String.prototype.trim
Trim(s) ==
    IF \A i \in 1..Len(s) : s[i] \in Whitespace
    THEN <<>>
    ELSE LET first == CHOOSE i \in 1..Len(s) :
                        s[i] \notin Whitespace /\ \A j \in 1..(i-1) : s[j] \in Whitespace
             last  == CHOOSE i \in 1..Len(s) :
                        s[i] \notin Whitespace /\ \A j \in (i+1)..Len(s) : s[j] \in Whitespace
         IN SubSeq(s, first, last)

\* s.split(/\s+/): the pieces between maximal runs of whitespace; a leading or
\* trailing run leaves an empty piece, as in JavaScript
RECURSIVE SplitWhitespace(_, _)
SplitWhitespace(s, piece) ==
    IF s = <<>> THEN <<piece>>
    ELSE IF Head(s) \in Whitespace
         THEN LET rest == CHOOSE k \in 1..(Len(s)+1) :
                            /\ \A j \in 1..(k-1) : s[j] \in Whitespace
                            /\ (k = Len(s)+1 \/ s[k] \notin Whitespace)
              IN <<piece>> \o SplitWhitespace(Drop(s, rest), <<>>)
         ELSE SplitWhitespace(Tail(s), Append(piece, Head(s)))

\* Array.prototype.filter(Boolean) on strings: drops the empty ones
FilterNonEmpty(ss) == SelectSeq(ss, LAMBDA x : x # <<>>)

----------------------------------------------------------------------------
(* class-parser *)

\* parseClass splitting at the first colon instead of the last
parseClassFirstColon(className) ==
    IF \A i \in 1..Len(className) : className[i] # ":"
    THEN [full |-> className, modifier |-> Null, base |-> className]
    ELSE LET firstColonIndex == CHOOSE i \in 1..Len(className) :
                                  className[i] = ":" /\ \A j \in 1..(i-1) : className[j] # ":"
         IN [full     |-> className,
             modifier |-> SubSeq(className, 1, firstColonIndex),
             base     |-> Drop(className, firstColonIndex + 1)]

parseClass(className) ==
    IF className = <<>>
    THEN [full |-> <<>>, modifier |-> Null, base |-> <<>>]
    ELSE LET lastColonIndex == LastIndexOf(className, ":")
         IN IF lastColonIndex = 0
            THEN [full |-> className, modifier |-> Null, base |-> className]
            ELSE [full     |-> className,
                  modifier |-> SubSeq(className, 1, lastColonIndex),
                  base     |-> Drop(className, lastColonIndex + 1)]

\* parseClasses without trim() and without filter(Boolean)
parseClassesKeepEmpty(classString) ==
    IF classString = <<>>
    THEN <<>>
    ELSE LET classes == SplitWhitespace(classString, <<>>)
         IN [i \in 1..Len(classes) |-> parseClass(classes[i])]

parseClasses(classString) ==
    IF classString = <<>> \/ Trim(classString) = <<>>
    THEN <<>>
    ELSE LET classes == FilterNonEmpty(SplitWhitespace(Trim(classString), <<>>))
         IN [i \in 1..Len(classes) |-> parseClass(classes[i])]

extractModifier(className) == parseClass(className).modifier

\* parseClasses(classString).map((p) => p.full)
ClassesOf(classString) ==
    LET parsed == parseClasses(classString) IN [i \in 1..Len(parsed) |-> parsed[i].full]

----------------------------------------------------------------------------
(* Characters: code units and collation *)

\* the printable ASCII characters in code order; Ascii[1] is the space, code 32
\* (code 96, the grave accent, is held by a placeholder that equals no character)
Ascii ==
    <<" ", "!", "\"", "#", "$", "%", "&", "'", "(", ")", "*", "+", ",", "-", ".", "/",
       "0", "1", "2", "3", "4", "5", "6", "7", "8", "9", ":", ";", "<", "=", ">", "?",
       "@", "A", "B", "C", "D", "E", "F", "G", "H", "I", "J", "K", "L", "M", "N", "O",
       "P", "Q", "R", "S", "T", "U", "V", "W", "X", "Y", "Z", "[", "\\", "]", "^", "_",
       "grave", "a", "b", "c", "d", "e", "f", "g", "h", "i", "j", "k", "l", "m", "n", "o",
       "p", "q", "r", "s", "t", "u", "v", "w", "x", "y", "z", "{", "|", "}", "~">>

\* String.prototype.charCodeAt for one character
CharCodes == [c \in Range(Ascii) |-> 31 + (CHOOSE i \in 1..Len(Ascii) : Ascii[i] = c)]

CharCode(c) == CharCodes[c]

\* the characters the model compares, in the order String.prototype.localeCompare
\* gives them (root collation: punctuation, then digits, then lower-case letters)
Collation ==
    <<" ", "_", "-", ",", ";", ":", "!", "?", ".", "'", "\"", "(", ")", "[", "]", "{",
       "}", "@", "*", "/", "\\", "&", "#", "%", "^", "+", "<", "=", ">", "|", "~",
       "$", "0", "1", "2", "3", "4", "5", "6", "7", "8", "9", "a", "b", "c", "d", "e",
       "f", "g", "h", "i", "j", "k", "l", "m", "n", "o", "p", "q", "r", "s", "t", "u",
       "v", "w", "x", "y", "z">>

CollationRanks == [c \in Range(Collation) |-> CHOOSE i \in 1..Len(Collation) : Collation[i] = c]

CollationRank(c) == CollationRanks[c]

\* a.localeCompare(b) as -1, 0 or 1
RECURSIVE localeCompare(_, _)
localeCompare(a, b) ==
    IF a = <<>> /\ b = <<>> THEN 0
    ELSE IF a = <<>> THEN -1
    ELSE IF b = <<>> THEN 1
    ELSE IF CollationRank(Head(a)) < CollationRank(Head(b)) THEN -1
    ELSE IF CollationRank(Head(a)) > CollationRank(Head(b)) THEN 1
    ELSE localeCompare(Tail(a), Tail(b))

\* Array.prototype.sort with a comparator: a stable sort. Each element is put
\* before the first element already placed that it is strictly less than.
InsertSorted(x, sorted, Cmp(_, _)) ==
    LET pos == IF \E i \in 1..Len(sorted) : Cmp(x, sorted[i]) < 0
               THEN CHOOSE i \in 1..Len(sorted) :
                      /\ Cmp(x, sorted[i]) < 0
                      /\ \A j \in 1..(i-1) : ~(Cmp(x, sorted[j]) < 0)
               ELSE Len(sorted) + 1
    IN SubSeq(sorted, 1, pos - 1) \o <<x>> \o SubSeq(sorted, pos, Len(sorted))

SortBy(s, Cmp(_, _)) ==
    LET placed[n \in 0..Len(s)] ==
            IF n = 0 THEN <<>> ELSE InsertSorted(s[n], placed[n-1], Cmp)
    IN placed[Len(s)]

\* Array.prototype.indexOf, 0-based; -1 when absent
IndexOf(list, x) ==
    IF \E i \in 1..Len(list) : list[i] = x
    THEN (CHOOSE i \in 1..Len(list) : list[i] = x /\ \A j \in 1..(i-1) : list[j] # x) - 1
    ELSE -1

IsPrefix(p, s) == Len(p) <= Len(s) /\ SubSeq(s, 1, Len(p)) = p

\* s.split(c) for a single character c
RECURSIVE SplitOn(_, _, _)
SplitOn(s, c, piece) ==
    IF s = <<>> THEN <<piece>>
    ELSE IF Head(s) = c
         THEN <<piece>> \o SplitOn(Tail(s), c, <<>>)
         ELSE SplitOn(Tail(s), c, Append(piece, Head(s)))

----------------------------------------------------------------------------
(* constants *)

BASE == 0
PSEUDO_CLASS == 1
RESPONSIVE == 2
CHAINED == 3
DARK == 4
ARIA_DATA == 5
ARBITRARY == 6
UNKNOWN == 7

RESPONSIVE_BREAKPOINTS == <<<<"s", "m">>,
       <<"m", "d">>,
       <<"l", "g">>,
       <<"x", "l">>,
       <<"2", "x", "l">>>>

PSEUDO_CLASS_VARIANTS ==
    <<<<"f", "o", "c", "u", "s">>,
      <<"f", "o", "c", "u", "s", "-", "w", "i", "t", "h", "i", "n">>,
      <<"f", "o", "c", "u", "s", "-", "v", "i", "s", "i", "b", "l", "e">>,
      <<"h", "o", "v", "e", "r">>,
      <<"a", "c", "t", "i", "v", "e">>,
      <<"v", "i", "s", "i", "t", "e", "d">>,
      <<"t", "a", "r", "g", "e", "t">>,
      <<"d", "i", "s", "a", "b", "l", "e", "d">>,
      <<"e", "n", "a", "b", "l", "e", "d">>,
      <<"c", "h", "e", "c", "k", "e", "d">>,
      <<"i", "n", "d", "e", "t", "e", "r", "m", "i", "n", "a", "t", "e">>,
      <<"d", "e", "f", "a", "u", "l", "t">>,
      <<"r", "e", "q", "u", "i", "r", "e", "d">>,
      <<"o", "p", "t", "i", "o", "n", "a", "l">>,
      <<"p", "l", "a", "c", "e", "h", "o", "l", "d", "e", "r", "-", "s", "h", "o", "w", "n">>,
      <<"a", "u", "t", "o", "f", "i", "l", "l">>,
      <<"r", "e", "a", "d", "-", "o", "n", "l", "y">>,
      <<"r", "e", "a", "d", "-", "w", "r", "i", "t", "e">>,
      <<"e", "m", "p", "t", "y">>,
      <<"o", "n", "l", "y">>,
      <<"f", "i", "r", "s", "t">>,
      <<"l", "a", "s", "t">>,
      <<"o", "d", "d">>,
      <<"e", "v", "e", "n">>>>

GROUP_PEER_VARIANTS == <<<<"g", "r", "o", "u", "p">>, <<"p", "e", "e", "r">>>>

HAS_VARIANTS == <<<<"h", "a", "s">>>>

SUPPORTS_VARIANTS == <<<<"s", "u", "p", "p", "o", "r", "t", "s">>>>

KNOWN_VARIANT_ORDER ==
    <<<<>>>> \o PSEUDO_CLASS_VARIANTS \o GROUP_PEER_VARIANTS \o HAS_VARIANTS
        \o SUPPORTS_VARIANTS \o RESPONSIVE_BREAKPOINTS
        \o <<<<"d", "a", "r", "k">>,
             <<"a", "r", "i", "a", "-", "c", "h", "e", "c", "k", "e", "d">>, <<"a", "r", "i", "a", "-", "d", "i", "s", "a", "b", "l", "e", "d">>, <<"a", "r", "i", "a", "-", "e", "x", "p", "a", "n", "d", "e", "d">>, <<"a", "r", "i", "a", "-", "h", "i", "d", "d", "e", "n">>,
             <<"a", "r", "i", "a", "-", "i", "n", "v", "a", "l", "i", "d">>, <<"a", "r", "i", "a", "-", "p", "r", "e", "s", "s", "e", "d">>, <<"a", "r", "i", "a", "-", "r", "e", "a", "d", "o", "n", "l", "y">>, <<"a", "r", "i", "a", "-", "r", "e", "q", "u", "i", "r", "e", "d">>,
             <<"a", "r", "i", "a", "-", "s", "e", "l", "e", "c", "t", "e", "d">>,
             <<"d", "a", "t", "a", "-">>>>

\* the character class [a-z-]
LowerOrHyphen ==
    {"a", "b", "c", "d", "e", "f", "g", "h", "i", "j", "k", "l", "m", "n", "o", "p",
     "q", "r", "s", "t", "u", "v", "w", "x", "y", "z", "-"}

\* the index after the longest run of [a-z-] characters of s that starts at i
RunEnd(s, i) ==
    CHOOSE k \in i..(Len(s) + 1) :
        /\ \A j \in i..(k-1) : s[j] \in LowerOrHyphen
        /\ (k = Len(s) + 1 \/ s[k] \notin LowerOrHyphen)

\* [a-z-]+: matched at index i
MatchRunColon(s, i) ==
    LET k == RunEnd(s, i) IN k > i /\ k <= Len(s) /\ s[k] = ":"

\* ([a-z-]+)?: matched at index i
MatchOptRunColon(s, i) ==
    LET k == RunEnd(s, i) IN k <= Len(s) /\ s[k] = ":"

\* ^(n1|n2|...): for the names of a list
MatchNameColon(names, s) ==
    \E i \in 1..Len(names) : IsPrefix(Append(names[i], ":"), s)

\* MODIFIER_PATTERNS.ARBITRARY: /^\[.+\]:/
TestARBITRARY(s) ==
    /\ Len(s) >= 4
    /\ s[1] = "["
    /\ \E k \in 3..(Len(s) - 1) :
          /\ s[k] = "]"
          /\ s[k+1] = ":"
          /\ \A j \in 2..(k-1) : s[j] # "\n"

\* MODIFIER_PATTERNS.ARIA: /^aria-[a-z-]+:/
TestARIA(s) == IsPrefix(<<"a", "r", "i", "a", "-">>, s) /\ MatchRunColon(s, 6)

\* MODIFIER_PATTERNS.DATA: /^data-[a-z-]+:/
TestDATA(s) == IsPrefix(<<"d", "a", "t", "a", "-">>, s) /\ MatchRunColon(s, 6)

\* MODIFIER_PATTERNS.DARK: /^dark:/
TestDARK(s) == IsPrefix(<<"d", "a", "r", "k", ":">>, s)

\* MODIFIER_PATTERNS.RESPONSIVE: ^(sm|md|lg|xl|2xl):
TestRESPONSIVE(s) == MatchNameColon(RESPONSIVE_BREAKPOINTS, s)

\* MODIFIER_PATTERNS.PSEUDO_CLASS: ^(focus|focus-within|...|even):
TestPSEUDO_CLASS(s) == MatchNameColon(PSEUDO_CLASS_VARIANTS, s)

\* MODIFIER_PATTERNS.GROUP_PEER: ^(group|peer)(-[a-z-]+)?:
TestGROUP_PEER(s) ==
    \E i \in 1..Len(GROUP_PEER_VARIANTS) :
        LET n == GROUP_PEER_VARIANTS[i] IN
        /\ IsPrefix(n, s)
        /\ \/ (Len(s) > Len(n) /\ s[Len(n) + 1] = ":")
           \/ (Len(s) > Len(n) /\ s[Len(n) + 1] = "-" /\ MatchRunColon(s, Len(n) + 2))

\* MODIFIER_PATTERNS.HAS: /^has-([a-z-]+)?:/
TestHAS(s) == IsPrefix(<<"h", "a", "s", "-">>, s) /\ MatchOptRunColon(s, 5)

\* MODIFIER_PATTERNS.SUPPORTS: /^supports-([a-z-]+)?:/
TestSUPPORTS(s) == IsPrefix(<<"s", "u", "p", "p", "o", "r", "t", "s", "-">>, s) /\ MatchOptRunColon(s, 10)

----------------------------------------------------------------------------
(* class-sorter *)

\* getModifierPriority testing for dark: before it looks for a chain
getModifierPriorityDarkFirst(modifier) ==
    IF modifier = Null THEN BASE
    ELSE IF TestARBITRARY(modifier) THEN ARBITRARY
    ELSE IF TestDARK(modifier) THEN DARK
    ELSE LET colonCount == Cardinality({i \in 1..Len(modifier) : modifier[i] = ":"})
             parts == FilterNonEmpty(SplitOn(modifier, ":", <<>>))
             hasResponsive == \E i \in 1..Len(parts) : TestRESPONSIVE(Append(parts[i], ":"))
             hasPseudoClass == \E i \in 1..Len(parts) : TestPSEUDO_CLASS(Append(parts[i], ":"))
         IN IF colonCount > 1 /\ hasResponsive /\ hasPseudoClass THEN CHAINED
            ELSE IF TestARIA(modifier) \/ TestDATA(modifier) THEN ARIA_DATA
            ELSE IF TestRESPONSIVE(modifier) THEN RESPONSIVE
            ELSE IF TestGROUP_PEER(modifier) THEN PSEUDO_CLASS
            ELSE IF TestHAS(modifier) THEN PSEUDO_CLASS
            ELSE IF TestSUPPORTS(modifier) THEN PSEUDO_CLASS
            ELSE IF TestPSEUDO_CLASS(modifier) THEN PSEUDO_CLASS
            ELSE UNKNOWN

getModifierPriority(modifier) ==
    IF modifier = Null THEN BASE
    ELSE IF TestARBITRARY(modifier) THEN ARBITRARY
    ELSE LET colonCount == Cardinality({i \in 1..Len(modifier) : modifier[i] = ":"})
             parts == FilterNonEmpty(SplitOn(modifier, ":", <<>>))
             hasResponsive == \E i \in 1..Len(parts) : TestRESPONSIVE(Append(parts[i], ":"))
             hasPseudoClass == \E i \in 1..Len(parts) : TestPSEUDO_CLASS(Append(parts[i], ":"))
         IN IF colonCount > 1 /\ hasResponsive /\ hasPseudoClass THEN CHAINED
            ELSE IF TestDARK(modifier) THEN DARK
            ELSE IF TestARIA(modifier) \/ TestDATA(modifier) THEN ARIA_DATA
            ELSE IF TestRESPONSIVE(modifier) THEN RESPONSIVE
            ELSE IF TestGROUP_PEER(modifier) THEN PSEUDO_CLASS
            ELSE IF TestHAS(modifier) THEN PSEUDO_CLASS
            ELSE IF TestSUPPORTS(modifier) THEN PSEUDO_CLASS
            ELSE IF TestPSEUDO_CLASS(modifier) THEN PSEUDO_CLASS
            ELSE UNKNOWN

\* getModifierSortOrder without the list of known variants
getModifierSortOrderByCharacter(modifier) ==
    IF modifier = Null \/ Len(modifier) = 0 THEN 0
    ELSE IF Len(modifier) = 1 THEN 0
    ELSE 10000 + CharCode(modifier[1])

getModifierSortOrder(modifier) ==
    IF modifier = Null \/ Len(modifier) = 0 THEN 0
    ELSE LET modifierWithoutColon == SubSeq(modifier, 1, Len(modifier) - 1)
             knownIndex == IndexOf(KNOWN_VARIANT_ORDER, modifierWithoutColon)
             firstPart == SplitOn(modifier, ":", <<>>)[1]
             firstPartIndex == IndexOf(KNOWN_VARIANT_ORDER, firstPart)
         IN IF Len(modifierWithoutColon) = 0 THEN 0
            ELSE IF knownIndex # -1 THEN knownIndex
            ELSE IF ":" \in Range(modifier) /\ firstPartIndex # -1
                 THEN firstPartIndex + 1000
            ELSE 10000 + CharCode(modifierWithoutColon[1])

\* a ?? "" for a modifier
OrEmpty(m) == IF m = Null THEN <<>> ELSE m

\* compareModifiers without the final comparison of the texts
compareModifiersNoTieBreak(a, b) ==
    LET priorityA == getModifierPriority(a)
        priorityB == getModifierPriority(b)
        orderA == getModifierSortOrder(a)
        orderB == getModifierSortOrder(b)
    IN IF priorityA # priorityB THEN priorityA - priorityB
       ELSE orderA - orderB

\* compareModifiers looking at the rank within the tier before the tier
compareModifiersOrderFirst(a, b) ==
    LET priorityA == getModifierPriority(a)
        priorityB == getModifierPriority(b)
        orderA == getModifierSortOrder(a)
        orderB == getModifierSortOrder(b)
    IN IF orderA # orderB THEN orderA - orderB
       ELSE IF priorityA # priorityB THEN priorityA - priorityB
       ELSE localeCompare(OrEmpty(a), OrEmpty(b))

compareModifiers(a, b) ==
    LET priorityA == getModifierPriority(a)
        priorityB == getModifierPriority(b)
        orderA == getModifierSortOrder(a)
        orderB == getModifierSortOrder(b)
    IN IF priorityA # priorityB THEN priorityA - priorityB
       ELSE IF orderA # orderB THEN orderA - orderB
       ELSE localeCompare(OrEmpty(a), OrEmpty(b))

CompareGroups(g, h) == compareModifiers(g.modifier, h.modifier)

\* sortModifierGroups reversing the groups instead of sorting them
sortModifierGroupsReversed(groups) ==
    [i \in 1..Len(groups) |-> groups[Len(groups) + 1 - i]]

\* sortModifierGroups leaving the groups in the order of the Map
sortModifierGroupsUnsorted(groups) == groups

sortModifierGroups(groups) == SortBy(groups, CompareGroups)

\* sortClassesInGroup leaving the classes as they came
sortClassesInGroupUnsorted(classes) == classes

sortClassesInGroup(classes) == SortBy(classes, localeCompare)

----------------------------------------------------------------------------
(* class-grouper *)

\* the entries of the Map built by groupClassesByModifier / createModifierGroups,
\* in insertion order: one entry per modifier, first seen first
RECURSIVE GroupEntries(_, _)
GroupEntries(classes, groups) ==
    IF classes = <<>> THEN groups
    ELSE LET className == Head(classes)
             modifier == parseClass(className).modifier
         IN IF \E i \in 1..Len(groups) : groups[i].modifier = modifier
            THEN GroupEntries(Tail(classes),
                   [i \in 1..Len(groups) |->
                      IF groups[i].modifier = modifier
                      THEN [groups[i] EXCEPT !.classes = Append(@, className)]
                      ELSE groups[i]])
            ELSE GroupEntries(Tail(classes),
                   Append(groups, [modifier |-> modifier, classes |-> <<className>>]))

\* a grouping that walks the classes from the last to the first
groupClassesByModifierBackwards(classes) ==
    GroupEntries([i \in 1..Len(classes) |-> classes[Len(classes) + 1 - i]], <<>>)

groupClassesByModifier(classes) == GroupEntries(classes, <<>>)

createModifierGroups(parsedClasses) ==
    GroupEntries([i \in 1..Len(parsedClasses) |-> parsedClasses[i].full], <<>>)

groupClassString(classString) == createModifierGroups(parseClasses(classString))

hasMultipleModifierGroups(classString) == Len(groupClassString(classString)) > 1

mixesBaseAndModifiers(classString) ==
    LET groups == groupClassString(classString)
        hasBase == \E i \in 1..Len(groups) : groups[i].modifier = Null
        hasModifiers == \E i \in 1..Len(groups) : groups[i].modifier # Null
    IN hasBase /\ hasModifiers

sortClassesByModifierGroups(classes) ==
    LET groupsMap == groupClassesByModifier(classes)
        groups == [i \in 1..Len(groupsMap) |->
                     [modifier |-> groupsMap[i].modifier,
                      classes  |-> sortClassesInGroup(groupsMap[i].classes)]]
    IN sortModifierGroups(groups)

----------------------------------------------------------------------------
(* Values of the variables a specification does not use *)

NoToken == [full |-> <<>>, modifier |-> Null, base |-> <<>>]

ParserIdle == raw = <<>> /\ token = NoToken /\ tokens = <<>> /\ ppc = "off"

NoCmp == [ab |-> 0, ba |-> 0, bc |-> 0, ac |-> 0, pa |-> 0, pb |-> 0, oa |-> 0, ob |-> 0]

ComparatorIdle == ma = Null /\ mb = Null /\ mc = Null /\ cmp = NoCmp /\ cpc = "off"

SorterIdle ==
    sclasses = <<>> /\ canon = <<>> /\ recanon = <<>> /\ shuffled = <<>> /\ spc = "off"

NoReport == [messageId |-> "none", index |-> 0, data |-> <<>>]

NoFix == [ok |-> FALSE, newStringArguments |-> <<>>, allArguments |-> <<>>, text |-> <<>>]

RuleIdle == args = <<>> /\ report = NoReport /\ fix = NoFix /\ after = <<>> /\ phase = "off"

NoNode == [type |-> "none"]

NoOptions == [classFunctions |-> Null, preferredFunction |-> Null, classAttributes |-> Null]

NodesIdle ==
    /\ visited = NoNode /\ given = NoOptions /\ detected = "none" /\ reports = <<>>
    /\ rewritten = NoNode /\ applied = 0 /\ vpc = "off"

----------------------------------------------------------------------------
(* ast-traverser: the arguments of a call *)

\* An argument node is [type, value]. For a Literal, value is the string the
\* literal denotes; for a TemplateLiteral without expressions, the source text
\* between the quotes; for any other node, the node's source text.
StringTypes == {"Literal", "TemplateLiteral"}

\* extractArgumentInfo taking the source text of every argument for a class string
extractArgumentInfoAllStrings(arguments) ==
    [i \in 1..Len(arguments) |->
        [index           |-> i - 1,
         isStringLiteral |-> TRUE,
         classString     |-> arguments[i].value,
         node            |-> arguments[i]]]

extractArgumentInfo(arguments) ==
    [i \in 1..Len(arguments) |->
        [index           |-> i - 1,
         isStringLiteral |-> arguments[i].type \in StringTypes,
         classString     |-> IF arguments[i].type \in StringTypes
                             THEN arguments[i].value ELSE Null,
         node            |-> arguments[i]]]

\* info.isStringLiteral && info.classString
IsClassArgument(info) ==
    info.isStringLiteral /\ info.classString # Null /\ info.classString # <<>>

\* argumentInfo.filter(...).map((info) => info.classString)
ClassStrings(argumentInfo) ==
    LET kept == SelectSeq(argumentInfo, IsClassArgument)
    IN [i \in 1..Len(kept) |-> kept[i].classString]

\* Array.prototype.join
RECURSIVE Join(_, _)
Join(parts, sep) ==
    IF parts = <<>> THEN <<>>
    ELSE IF Len(parts) = 1 THEN parts[1]
    ELSE parts[1] \o sep \o Join(Tail(parts), sep)

----------------------------------------------------------------------------
(* class-grouper: modifiers split across strings *)

\* the modifiers of the groups of one class string
GroupModifiers(classString) ==
    LET gs == groupClassString(classString) IN {gs[k].modifier : k \in 1..Len(gs)}

\* modifierToSources.get(m): the indices of the strings with a group of modifier m
ModifierSources(classStrings, m) ==
    {i \in 1..Len(classStrings) : m \in GroupModifiers(classStrings[i])}

\* the keys of modifierToSources in insertion order
RECURSIVE ModifierKeys(_, _)
ModifierKeys(classStrings, keys) ==
    IF classStrings = <<>> THEN keys
    ELSE LET gs == groupClassString(Head(classStrings))
             added[k \in 0..Len(gs)] ==
                 IF k = 0 THEN keys
                 ELSE IF \E j \in 1..Len(added[k-1]) : added[k-1][j] = gs[k].modifier
                      THEN added[k-1]
                      ELSE Append(added[k-1], gs[k].modifier)
         IN ModifierKeys(Tail(classStrings), added[Len(gs)])

hasSplitModifiers(classStrings) ==
    LET keys == ModifierKeys(classStrings, <<>>)
    IN \E j \in 1..Len(keys) : Cardinality(ModifierSources(classStrings, keys[j])) > 1

getSplitModifier(classStrings) ==
    LET keys == ModifierKeys(classStrings, <<>>)
        IsSplit(j) == /\ Cardinality(ModifierSources(classStrings, keys[j])) > 1
                      /\ keys[j] # Null
    IN IF \E j \in 1..Len(keys) : IsSplit(j)
       THEN keys[CHOOSE j \in 1..Len(keys) : IsSplit(j) /\ \A i \in 1..(j-1) : ~IsSplit(i)]
       ELSE Null

getFirstTwoModifiers(classString) ==
    LET modifiers == SelectSeq(groupClassString(classString), LAMBDA g : g.modifier # Null)
    IN IF Len(modifiers) >= 2
       THEN <<modifiers[1].modifier, modifiers[2].modifier>>
       ELSE Null

getFirstModifier(classString) ==
    LET modifiers == SelectSeq(groupClassString(classString), LAMBDA g : g.modifier # Null)
    IN IF Len(modifiers) >= 1 THEN modifiers[1].modifier ELSE Null

----------------------------------------------------------------------------
(* fix-generator *)

\* arg.replace(/"/g, '\\"')
RECURSIVE EscapeQuotes(_)
EscapeQuotes(s) ==
    IF s = <<>> THEN <<>>
    ELSE IF Head(s) = "\"" THEN <<"\\", "\"">> \o EscapeQuotes(Tail(s))
    ELSE <<Head(s)>> \o EscapeQuotes(Tail(s))

\* '"' + arg.replace(/"/g, '\\"') + '"', written in the source as a template literal
QuoteArgument(arg) == <<"\"">> \o EscapeQuotes(arg) \o <<"\"">>

\* allClasses: the classes of every string literal argument
RECURSIVE CollectClasses(_)
CollectClasses(argumentInfo) ==
    IF argumentInfo = <<>> THEN <<>>
    ELSE LET info == Head(argumentInfo)
             parsed == parseClasses(info.classString)
         IN (IF IsClassArgument(info)
             THEN [i \in 1..Len(parsed) |-> parsed[i].full]
             ELSE <<>>) \o CollectClasses(Tail(argumentInfo))

\* newStringArguments: one string per group that has classes
NewStringArguments(gs) ==
    LET joined == [i \in 1..Len(gs) |->
                      IF Len(gs[i].classes) = 0 THEN <<>>
                      ELSE Join(sortClassesInGroup(gs[i].classes), <<" ">>)]
    IN FilterNonEmpty(joined)

\* allArguments with the new strings ahead of every preserved argument
BuildAllArgumentsStringsFirst(argumentInfo, newStringArguments) ==
    LET kept == SelectSeq(argumentInfo, LAMBDA info : ~info.isStringLiteral)
    IN [i \in 1..Len(newStringArguments) |-> QuoteArgument(newStringArguments[i])]
       \o [i \in 1..Len(kept) |-> kept[i].node.value]

\* allArguments: the new strings where the first string literal stood, the other
\* string literals dropped, every other argument kept as its source text
BuildAllArguments(argumentInfo, newStringArguments) ==
    LET quoted == [i \in 1..Len(newStringArguments) |->
                      QuoteArgument(newStringArguments[i])]
        IsFirstString(i) == /\ argumentInfo[i].isStringLiteral
                            /\ \A j \in 1..(i-1) : ~argumentInfo[j].isStringLiteral
        built[n \in 0..Len(argumentInfo)] ==
            IF n = 0 THEN <<>>
            ELSE IF argumentInfo[n].isStringLiteral
                 THEN (IF IsFirstString(n) THEN built[n-1] \o quoted ELSE built[n-1])
                 ELSE Append(built[n-1], argumentInfo[n].node.value)
        hasAddedNewStrings == \E i \in 1..Len(argumentInfo) : argumentInfo[i].isStringLiteral
    IN IF ~hasAddedNewStrings /\ Len(newStringArguments) > 0
       THEN built[Len(argumentInfo)] \o quoted
       ELSE built[Len(argumentInfo)]

\* generateFunctionCallFix without its returns of null on empty input
generateFunctionCallFixAlways(argumentInfo) ==
    LET allClasses == CollectClasses(argumentInfo)
        gs == sortClassesByModifierGroups(allClasses)
        newStringArguments == NewStringArguments(gs)
        allArguments == BuildAllArguments(argumentInfo, newStringArguments)
        originalStringArgs == ClassStrings(argumentInfo)
    IN IF newStringArguments = originalStringArgs THEN NoFix
       ELSE [ok                 |-> TRUE,
             newStringArguments |-> newStringArguments,
             allArguments       |-> allArguments,
             text               |-> Join(allArguments, <<",", " ">>)]

\* a planner that takes as many strings as before for no change
generateFunctionCallFixByCount(argumentInfo) ==
    LET allClasses == CollectClasses(argumentInfo)
        gs == sortClassesByModifierGroups(allClasses)
        newStringArguments == NewStringArguments(gs)
        allArguments == BuildAllArguments(argumentInfo, newStringArguments)
        originalStringArgs == ClassStrings(argumentInfo)
    IN IF Len(newStringArguments) = 0 THEN NoFix
       ELSE IF Len(newStringArguments) = Len(originalStringArgs) THEN NoFix
       ELSE [ok                 |-> TRUE,
             newStringArguments |-> newStringArguments,
             allArguments       |-> allArguments,
             text               |-> Join(allArguments, <<",", " ">>)]

generateFunctionCallFix(argumentInfo) ==
    LET allClasses == CollectClasses(argumentInfo)
        gs == sortClassesByModifierGroups(allClasses)
        newStringArguments == NewStringArguments(gs)
        allArguments == BuildAllArguments(argumentInfo, newStringArguments)
        originalStringArgs == ClassStrings(argumentInfo)
    IN IF Len(allClasses) = 0 THEN NoFix
       ELSE IF Len(gs) = 0 THEN NoFix
       ELSE IF Len(newStringArguments) = 0 THEN NoFix
       ELSE IF newStringArguments = originalStringArgs THEN NoFix
       ELSE [ok                 |-> TRUE,
             newStringArguments |-> newStringArguments,
             allArguments       |-> allArguments,
             text               |-> Join(allArguments, <<",", " ">>)]

----------------------------------------------------------------------------
(* The fix text read back as the arguments of the call *)

\* the character an escape sequence \c denotes in a string literal; the model
\* writes no b, f, r, v, u, x or digit after a backslash
EscapedChar(c) == IF c = "n" THEN "\n" ELSE IF c = "t" THEN "\t" ELSE c

\* the string a literal's body denotes
RECURSIVE CookedValue(_)
CookedValue(body) ==
    IF body = <<>> THEN <<>>
    ELSE IF Head(body) = "\\"
         THEN (IF Len(body) = 1 THEN <<>>
               ELSE <<EscapedChar(body[2])>> \o CookedValue(Drop(body, 3)))
         ELSE <<Head(body)>> \o CookedValue(Tail(body))

\* the index of the quote that closes a string literal whose body starts at i;
\* 0 when the literal is not closed
RECURSIVE ClosingQuote(_, _)
ClosingQuote(s, i) ==
    IF i > Len(s) THEN 0
    ELSE IF s[i] = "\\" THEN ClosingQuote(s, i + 2)
    ELSE IF s[i] = "\"" THEN i
    ELSE ClosingQuote(s, i + 1)

\* the index of the first "," of s at or after i; Len(s) + 1 when there is none
NextComma(s, i) ==
    CHOOSE k \in i..(Len(s) + 1) :
        /\ \A j \in i..(k-1) : s[j] # ","
        /\ (k = Len(s) + 1 \/ s[k] = ",")

\* the argument nodes of the text: string literals and other expressions,
\* separated by ", "
RECURSIVE ParseArguments(_)
ParseArguments(s) ==
    IF s = <<>> THEN <<>>
    ELSE IF Head(s) \in {",", " "} THEN ParseArguments(Tail(s))
    ELSE IF Head(s) = "\""
         THEN LET close == ClosingQuote(s, 2)
              IN IF close = 0
                 THEN <<[type |-> "SyntaxError", value |-> s]>>
                 ELSE <<[type |-> "Literal", value |-> CookedValue(SubSeq(s, 2, close - 1))]>>
                      \o ParseArguments(Drop(s, close + 1))
         ELSE LET comma == NextComma(s, 1)
              IN <<[type |-> "Identifier", value |-> SubSeq(s, 1, comma - 1)]>>
                 \o ParseArguments(Drop(s, comma))

----------------------------------------------------------------------------
(* group-tailwind-modifiers: a call of the standard pattern *)

SAME_MODIFIER == <<"s", "a", "m", "e", " ", "m", "o", "d", "i", "f", "i", "e", "r">>
MODIFIER_CLASSES == <<"m", "o", "d", "i", "f", "i", "e", "r", " ", "c", "l", "a", "s", "s", "e", "s">>
DIFFERENT_MODIFIERS == <<"d", "i", "f", "f", "e", "r", "e", "n", "t", " ", "m", "o", "d", "i", "f", "i", "e", "r", "s">>
IN_SAME_ARGUMENT == <<"i", "n", " ", "s", "a", "m", "e", " ", "a", "r", "g", "u", "m", "e", "n", "t">>

\* info.isStringLiteral && info.classString, with one of the two violations
ArgumentViolates(info) ==
    /\ IsClassArgument(info)
    /\ \/ mixesBaseAndModifiers(info.classString)
       \/ hasMultipleModifierGroups(info.classString)

MixedReport(info) ==
    [messageId |-> "mixedBaseAndModifiers",
     index     |-> info.index,
     data      |-> <<IF getFirstModifier(info.classString) = Null
                     THEN MODIFIER_CLASSES
                     ELSE getFirstModifier(info.classString)>>]

MultipleReport(info) ==
    [messageId |-> "multipleModifierGroups",
     index     |-> info.index,
     data      |-> IF getFirstTwoModifiers(info.classString) = Null
                   THEN <<DIFFERENT_MODIFIERS, IN_SAME_ARGUMENT>>
                   ELSE getFirstTwoModifiers(info.classString)]

\* the per-argument checks in the opposite order: groups before mixing
ArgumentReportGroupsFirst(info) ==
    IF hasMultipleModifierGroups(info.classString)
    THEN MultipleReport(info)
    ELSE MixedReport(info)

\* the report for a string argument that has a violation
ArgumentReport(info) ==
    IF mixesBaseAndModifiers(info.classString)
    THEN MixedReport(info)
    ELSE MultipleReport(info)

handleStandardFunctionCall(arguments) ==
    LET argumentInfo == extractArgumentInfo(arguments)
        classStrings == ClassStrings(argumentInfo)
    IN IF Len(classStrings) = 0 THEN NoReport
       ELSE IF hasSplitModifiers(classStrings)
       THEN [messageId |-> "splitModifier",
             index     |-> -1,
             data      |-> <<IF getSplitModifier(classStrings) = Null
                             THEN SAME_MODIFIER
                             ELSE getSplitModifier(classStrings)>>]
       ELSE IF \E i \in 1..Len(argumentInfo) : ArgumentViolates(argumentInfo[i])
       THEN ArgumentReport(argumentInfo[
                CHOOSE i \in 1..Len(argumentInfo) :
                    /\ ArgumentViolates(argumentInfo[i])
                    /\ \A j \in 1..(i-1) : ~ArgumentViolates(argumentInfo[j])])
       ELSE NoReport

----------------------------------------------------------------------------
(* Nodes of the syntax tree                                                  *)
(*                                                                           *)
(* Literal and TemplateLiteral nodes are [type, value] as above (a Literal   *)
(* is a string literal, a TemplateLiteral has no expressions); an Identifier *)
(* stands for any expression the rule does not look into, value being its    *)
(* source text. An ArrayExpression is [type, elements], an ObjectExpression  *)
(* [type, properties], a Property [type, keyType, key, value], a call        *)
(* [type, callee, arguments], a JSXAttribute [type, name, value] and a       *)
(* JSXExpressionContainer [type, expression].                                *)
(*                                                                           *)
(* A location names a node inside a call: <<a>> is argument a, and           *)
(* loc \o <<i>> the value of property i of the object at loc.                *)

Literal(s) == [type |-> "Literal", value |-> s]
TemplateLiteral(s) == [type |-> "TemplateLiteral", value |-> s]
Identifier(s) == [type |-> "Identifier", value |-> s]
ArrayExpression(es) == [type |-> "ArrayExpression", elements |-> es]
ObjectExpression(ps) == [type |-> "ObjectExpression", properties |-> ps]
Property(k, v) == [type |-> "Property", keyType |-> "Identifier", key |-> k, value |-> v]
QuotedProperty(k, v) == [type |-> "Property", keyType |-> "Literal", key |-> k, value |-> v]
CallExpression(f, as) ==
    [type |-> "CallExpression", callee |-> [type |-> "Identifier", name |-> f], arguments |-> as]
JSXExpressionContainer(e) == [type |-> "JSXExpressionContainer", expression |-> e]
JSXAttribute(n, v) == [type |-> "JSXAttribute", name |-> n, value |-> v]

\* the location a search returns when it finds no node
Nowhere == <<0>>

\* the node at a location below a sequence of arguments
RECURSIVE NodeAt(_, _)
NodeAt(arguments, loc) ==
    IF Len(loc) = 1 THEN arguments[loc[1]]
    ELSE NodeAt(arguments, SubSeq(loc, 1, Len(loc) - 1)).properties[loc[Len(loc)]].value

\* the node with the node below it at loc replaced: fixer.replaceTextRange on
\* the range of that node
RECURSIVE ReplaceIn(_, _, _)
ReplaceIn(node, loc, new) ==
    IF loc = <<>> THEN new
    ELSE [node EXCEPT !.properties[loc[1]].value = ReplaceIn(@, Tail(loc), new)]

ReplaceAt(arguments, loc, new) ==
    [arguments EXCEPT ![loc[1]] = ReplaceIn(@, Tail(loc), new)]

----------------------------------------------------------------------------
(* pattern-detector *)

NoLocation == [type |-> "none", argumentIndex |-> 0, propertyName |-> Null]

hasProperty(obj, propertyName) ==
    \E i \in 1..Len(obj.properties) :
        /\ obj.properties[i].type = "Property"
        /\ obj.properties[i].keyType = "Identifier"
        /\ obj.properties[i].key = propertyName

\* detectFunctionPattern asking the first argument's object for variants only
detectFunctionPatternVariantsOnly(node) ==
    IF /\ Len(node.arguments) >= 2
       /\ node.arguments[1].type \in {"Literal", "TemplateLiteral", "ArrayExpression"}
       /\ node.arguments[2].type = "ObjectExpression"
       /\ hasProperty(node.arguments[2], <<"v", "a", "r", "i", "a", "n", "t", "s">>)
    THEN [type |-> "cva-like",
          baseLocation |-> [type |-> "argument", argumentIndex |-> 0, propertyName |-> Null],
          variantsLocation |-> [type |-> "property", argumentIndex |-> 1,
                                propertyName |-> <<"v", "a", "r", "i", "a", "n", "t", "s">>]]
    ELSE IF /\ Len(node.arguments) >= 1
            /\ node.arguments[1].type = "ObjectExpression"
            /\ hasProperty(node.arguments[1], <<"v", "a", "r", "i", "a", "n", "t", "s">>)
    THEN [type |-> "tv-like",
          baseLocation |-> [type |-> "property", argumentIndex |-> 0,
                            propertyName |-> <<"b", "a", "s", "e">>],
          variantsLocation |-> [type |-> "property", argumentIndex |-> 0,
                                propertyName |-> <<"v", "a", "r", "i", "a", "n", "t", "s">>]]
    ELSE [type |-> "standard", baseLocation |-> NoLocation, variantsLocation |-> NoLocation]

detectFunctionPattern(node) ==
    IF /\ Len(node.arguments) >= 2
       /\ node.arguments[1].type \in {"Literal", "TemplateLiteral", "ArrayExpression"}
       /\ node.arguments[2].type = "ObjectExpression"
       /\ hasProperty(node.arguments[2], <<"v", "a", "r", "i", "a", "n", "t", "s">>)
    THEN [type |-> "cva-like",
          baseLocation |-> [type |-> "argument", argumentIndex |-> 0, propertyName |-> Null],
          variantsLocation |-> [type |-> "property", argumentIndex |-> 1,
                                propertyName |-> <<"v", "a", "r", "i", "a", "n", "t", "s">>]]
    ELSE IF /\ Len(node.arguments) >= 1
            /\ node.arguments[1].type = "ObjectExpression"
            /\ hasProperty(node.arguments[1], <<"b", "a", "s", "e">>)
            /\ hasProperty(node.arguments[1], <<"v", "a", "r", "i", "a", "n", "t", "s">>)
    THEN [type |-> "tv-like",
          baseLocation |-> [type |-> "property", argumentIndex |-> 0,
                            propertyName |-> <<"b", "a", "s", "e">>],
          variantsLocation |-> [type |-> "property", argumentIndex |-> 0,
                                propertyName |-> <<"v", "a", "r", "i", "a", "n", "t", "s">>]]
    ELSE [type |-> "standard", baseLocation |-> NoLocation, variantsLocation |-> NoLocation]

----------------------------------------------------------------------------
(* ast-traverser: the base and the variants of a call *)

\* the string elements of an array, joined by " "
ArrayStrings(elements) ==
    LET strings == SelectSeq(elements, LAMBDA el : el.type = "Literal")
    IN Join([i \in 1..Len(strings) |-> strings[i].value], <<" ">>)

\* the class string of a base value; Null for a value that holds none
BaseValueClasses(value) ==
    IF value.type \in {"Literal", "TemplateLiteral"} THEN value.value
    ELSE IF value.type = "ArrayExpression" THEN ArrayStrings(value.elements)
    ELSE Null

\* the index of the property a predicate holds of first; 0 when there is none
FirstProperty(properties, Test(_)) ==
    IF \E i \in 1..Len(properties) : Test(properties[i])
    THEN CHOOSE i \in 1..Len(properties) :
            Test(properties[i]) /\ \A j \in 1..(i-1) : ~Test(properties[j])
    ELSE 0

IsNamed(prop, name) ==
    prop.type = "Property" /\ prop.keyType = "Identifier" /\ prop.key = name

extractBaseClasses(node, pattern) ==
    LET location == pattern.baseLocation IN
    IF location.type = "none" THEN Null
    ELSE IF Len(node.arguments) <= location.argumentIndex THEN Null
    ELSE LET arg == node.arguments[location.argumentIndex + 1] IN
         IF location.type = "argument" THEN BaseValueClasses(arg)
         ELSE IF arg.type # "ObjectExpression" THEN Null
         ELSE LET Holds(prop) == /\ IsNamed(prop, location.propertyName)
                                 /\ BaseValueClasses(prop.value) # Null
                  found == FirstProperty(arg.properties, Holds)
              IN IF found = 0 THEN Null
                 ELSE BaseValueClasses(arg.properties[found].value)

\* the location of the base value; Nowhere when there is none
findBaseNode(node, pattern) ==
    LET location == pattern.baseLocation IN
    IF location.type = "none" THEN Nowhere
    ELSE IF Len(node.arguments) <= location.argumentIndex THEN Nowhere
    ELSE LET arg == node.arguments[location.argumentIndex + 1] IN
         IF location.type = "argument" THEN <<location.argumentIndex + 1>>
         ELSE IF arg.type # "ObjectExpression" THEN Nowhere
         ELSE LET Holds(prop) == IsNamed(prop, location.propertyName)
                  found == FirstProperty(arg.properties, Holds)
              IN IF found = 0 THEN Nowhere
                 ELSE <<location.argumentIndex + 1, found>>

\* Map.prototype.set on a map kept as the sequence of its entries
MapSet(map, key, value) ==
    IF \E i \in 1..Len(map) : map[i].key = key
    THEN [i \in 1..Len(map) |-> IF map[i].key = key
                                THEN [key |-> key, value |-> value] ELSE map[i]]
    ELSE Append(map, [key |-> key, value |-> value])

\* extractVariantObject on the properties that are left of an object
RECURSIVE extractVariantObject(_, _, _)
extractVariantObject(properties, variantValues, path) ==
    IF properties = <<>> THEN variantValues
    ELSE LET prop == Head(properties)
             rest == Tail(properties)
             currentPath == IF path # <<>> THEN path \o <<".">> \o prop.key ELSE prop.key
         IN IF prop.type # "Property" \/ prop.key = <<>>
            THEN extractVariantObject(rest, variantValues, path)
            ELSE IF prop.value.type = "ObjectExpression"
            THEN extractVariantObject(rest,
                     extractVariantObject(prop.value.properties, variantValues, currentPath),
                     path)
            ELSE IF prop.value.type \in {"Literal", "TemplateLiteral"}
            THEN extractVariantObject(rest,
                     MapSet(variantValues, currentPath, prop.value.value), path)
            ELSE extractVariantObject(rest, variantValues, path)

\* the loop of extractVariantValues over the properties of the argument
RECURSIVE ExtractVariantsOf(_, _, _)
ExtractVariantsOf(properties, propertyName, variantValues) ==
    IF properties = <<>> THEN variantValues
    ELSE IF /\ IsNamed(Head(properties), propertyName)
            /\ Head(properties).value.type = "ObjectExpression"
         THEN ExtractVariantsOf(Tail(properties), propertyName,
                  extractVariantObject(Head(properties).value.properties, variantValues, <<>>))
         ELSE ExtractVariantsOf(Tail(properties), propertyName, variantValues)

extractVariantValues(node, pattern) ==
    LET location == pattern.variantsLocation IN
    IF location.type = "none" THEN <<>>
    ELSE IF Len(node.arguments) <= location.argumentIndex THEN <<>>
    ELSE LET arg == node.arguments[location.argumentIndex + 1] IN
         IF arg.type # "ObjectExpression" THEN <<>>
         ELSE ExtractVariantsOf(arg.properties, location.propertyName, <<>>)

\* the location of the value of the property findVariantPropertyNode returns;
\* Nowhere when it returns null
findVariantPropertyNode(node, path, pattern) ==
    LET location == pattern.variantsLocation IN
    IF location.type = "none" THEN Nowhere
    ELSE IF Len(node.arguments) <= location.argumentIndex THEN Nowhere
    ELSE LET arg == node.arguments[location.argumentIndex + 1] IN
         IF arg.type # "ObjectExpression" THEN Nowhere
         ELSE LET IsVariants(prop) == /\ IsNamed(prop, location.propertyName)
                                      /\ prop.value.type = "ObjectExpression"
                  variantsIndex == FirstProperty(arg.properties, IsVariants)
              IN IF variantsIndex = 0 THEN Nowhere
                 ELSE LET variantsObject == arg.properties[variantsIndex].value
                          names == SplitOn(path, ".", <<>>)
                          IsVariant(prop) == IsNamed(prop, names[1])
                          variantIndex == FirstProperty(variantsObject.properties, IsVariant)
                      IN IF variantIndex = 0 THEN Nowhere
                         ELSE LET variantProperty == variantsObject.properties[variantIndex]
                                  IsSubVariant(prop) == Len(names) >= 2 /\ IsNamed(prop, names[2])
                              IN IF variantProperty.value.type # "ObjectExpression" THEN Nowhere
                                 ELSE LET subIndex == FirstProperty(
                                              variantProperty.value.properties, IsSubVariant)
                                      IN IF subIndex = 0 THEN Nowhere
                                         ELSE <<location.argumentIndex + 1, variantsIndex,
                                                variantIndex, subIndex>>

----------------------------------------------------------------------------
(* ast-traverser: the value of a JSX attribute *)

\* NoValue is the value of an attribute written without one
NoValue == [type |-> "none"]

extractJSXAttributeValue(node) ==
    IF node.value.type = "none" THEN Null
    ELSE IF node.value.type = "JSXExpressionContainer"
    THEN (IF node.value.expression.type \in {"Literal", "TemplateLiteral"}
          THEN node.value.expression.value
          ELSE Null)
    ELSE IF node.value.type = "Literal" THEN node.value.value
    ELSE Null

----------------------------------------------------------------------------
(* fix-generator: wrapping one class string in a call *)

\* mixesBaseAndModifiers(classString) || hasMultipleModifierGroups(classString)
needsWrapping(classString) ==
    mixesBaseAndModifiers(classString) \/ hasMultipleModifierGroups(classString)

\* the quoted strings of the groups, one per group
QuotedGroups(groups) ==
    LET filled == SelectSeq(groups, LAMBDA g : Len(g.classes) > 0)
        strings == [i \in 1..Len(filled) |->
                       Join(sortClassesInGroup(filled[i].classes), <<" ">>)]
        kept == SelectSeq(strings, LAMBDA g : g # <<>>)
    IN [i \in 1..Len(kept) |-> QuoteArgument(kept[i])]

processClassesIntoArguments(classString) ==
    IF classString = <<>> \/ Trim(classString) = <<>> THEN Null
    ELSE LET parsedClasses == ClassesOf(classString) IN
         IF Len(parsedClasses) = 0 THEN Null
         ELSE LET groups == sortClassesByModifierGroups(parsedClasses) IN
              IF Len(groups) = 0 THEN Null
              ELSE IF Len(QuotedGroups(groups)) = 0 THEN Null
              ELSE QuotedGroups(groups)

\* preferredFunction(arguments_.join(", "))
WrapCall(preferredFunction, arguments_) ==
    preferredFunction \o <<"(">> \o Join(arguments_, <<",", " ">>) \o <<")">>

\* a fix is the location of the node whose range it replaces and the new text;
\* NoRewrite is the fix function returning null
NoRewrite == [loc |-> <<>>, text |-> Null]

generateJSXAttributeFix(node, classString, preferredFunction) ==
    IF ~needsWrapping(classString) THEN NoRewrite
    ELSE IF processClassesIntoArguments(classString) = Null THEN NoRewrite
    ELSE IF node.value.type = "none" THEN NoRewrite
    ELSE [loc  |-> <<>>,
          text |-> <<"{">>
                   \o WrapCall(preferredFunction, processClassesIntoArguments(classString))
                   \o <<"}">>]

\* value is the value of the property, loc its location
generateVariantValueFix(value, loc, classString, preferredFunction) ==
    IF ~needsWrapping(classString) THEN NoRewrite
    ELSE IF processClassesIntoArguments(classString) = Null THEN NoRewrite
    ELSE IF value.type \notin {"Literal", "TemplateLiteral"} THEN NoRewrite
    ELSE [loc  |-> loc,
          text |-> WrapCall(preferredFunction, processClassesIntoArguments(classString))]

----------------------------------------------------------------------------
(* group-tailwind-modifiers: options, calls with variants, JSX attributes *)

\* DEFAULT_OPTIONS
DEFAULT_OPTIONS ==
    [classFunctions    |-> <<<<"c", "n">>>>,
     preferredFunction |-> <<"c", "n">>,
     classAttributes   |-> <<<<"c", "l", "a", "s", "s", "N", "a", "m", "e">>>>]

\* the names of a list that are not blank
NonBlank(names) == SelectSeq(names, LAMBDA n : Trim(n) # <<>>)

\* the options object create() builds from context.options[0]
NormalizeOptions(rawOptions) ==
    LET classFunctions == IF rawOptions.classFunctions = Null
                          THEN DEFAULT_OPTIONS.classFunctions ELSE rawOptions.classFunctions
        preferredFunction == IF rawOptions.preferredFunction = Null
                             THEN DEFAULT_OPTIONS.preferredFunction
                             ELSE rawOptions.preferredFunction
        classAttributes == IF rawOptions.classAttributes = Null
                           THEN DEFAULT_OPTIONS.classAttributes ELSE rawOptions.classAttributes
    IN [classFunctions    |-> IF Len(classFunctions) > 0
                              THEN NonBlank(classFunctions)
                              ELSE DEFAULT_OPTIONS.classFunctions,
        preferredFunction |-> IF Trim(preferredFunction) # <<>>
                              THEN Trim(preferredFunction)
                              ELSE DEFAULT_OPTIONS.preferredFunction,
        classAttributes   |-> IF Len(classAttributes) > 0
                              THEN NonBlank(classAttributes)
                              ELSE DEFAULT_OPTIONS.classAttributes]

isClassFunction(functionName, classFunctions) == functionName \in Range(classFunctions)

\* the report of handleStandardFunctionCall with its fix, as a list of reports
StandardReports(node) ==
    LET found == handleStandardFunctionCall(node.arguments)
        planned == generateFunctionCallFix(extractArgumentInfo(node.arguments))
    IN IF found.messageId = "none" THEN <<>>
       ELSE <<[messageId |-> found.messageId,
               loc       |-> IF found.index = -1 THEN <<>> ELSE <<found.index + 1>>,
               data      |-> found.data,
               fix       |-> IF planned.ok THEN [loc |-> <<>>, text |-> planned.text]
                             ELSE NoRewrite]>>

\* Step 1 of handleVariantFunctionCall: the base classes
BaseReports(node, options, pattern) ==
    LET baseClasses == extractBaseClasses(node, pattern)
        baseNode == findBaseNode(node, pattern)
    IN IF baseClasses = Null \/ baseClasses = <<>> THEN <<>>
       ELSE IF ~needsWrapping(baseClasses) THEN <<>>
       ELSE IF baseNode = Nowhere THEN <<>>
       ELSE <<[messageId |-> "mixedBaseAndModifiers",
               loc       |-> baseNode,
               data      |-> <<MODIFIER_CLASSES>>,
               fix       |-> [loc  |-> baseNode,
                              text |-> WrapCall(options.preferredFunction,
                                           QuotedGroups(sortClassesByModifierGroups(
                                               ClassesOf(baseClasses))))]]>>

\* Step 2 of handleVariantFunctionCall: the variant values that are left
RECURSIVE VariantReports(_, _, _, _)
VariantReports(node, options, pattern, entries) ==
    IF entries = <<>> THEN <<>>
    ELSE LET path == Head(entries).key
             classString == Head(entries).value
             propertyNode == findVariantPropertyNode(node, path, pattern)
             rest == VariantReports(node, options, pattern, Tail(entries))
         IN IF ~needsWrapping(classString) THEN rest
            ELSE IF propertyNode = Nowhere THEN rest
            ELSE <<[messageId |-> "complexProperty",
                    loc       |-> propertyNode,
                    data      |-> <<options.preferredFunction>>,
                    fix       |-> generateVariantValueFix(
                                      NodeAt(node.arguments, propertyNode), propertyNode,
                                      classString, options.preferredFunction)]>> \o rest

handleVariantFunctionCall(node, options, pattern) ==
    BaseReports(node, options, pattern)
        \o VariantReports(node, options, pattern, extractVariantValues(node, pattern))

\* the CallExpression listener
OnCallExpression(node, options) ==
    IF node.callee.type # "Identifier" THEN <<>>
    ELSE IF ~isClassFunction(node.callee.name, options.classFunctions) THEN <<>>
    ELSE IF detectFunctionPattern(node).type = "standard" THEN StandardReports(node)
    ELSE handleVariantFunctionCall(node, options, detectFunctionPattern(node))

\* const pattern = detectFunctionPattern(node), for a call the listener handles
PatternOf(node, options) ==
    IF node.callee.type # "Identifier" THEN "none"
    ELSE IF ~isClassFunction(node.callee.name, options.classFunctions) THEN "none"
    ELSE detectFunctionPattern(node).type

\* the JSXAttribute listener
OnJSXAttribute(node, options) ==
    LET classString == extractJSXAttributeValue(node) IN
    IF node.name \notin Range(options.classAttributes) THEN <<>>
    ELSE IF classString = Null \/ classString = <<>> THEN <<>>
    ELSE IF needsWrapping(classString)
    THEN <<[messageId |-> "complexJSXAttribute",
            loc       |-> <<>>,
            data      |-> <<options.preferredFunction>>,
            fix       |-> generateJSXAttributeFix(node, classString,
                                                  options.preferredFunction)]>>
    ELSE <<>>

----------------------------------------------------------------------------
(* A fix applied: its text read as source in the place of the node *)

\* the call the text f(...) denotes
ParseCall(text) ==
    LET open == CHOOSE i \in 1..Len(text) :
                    text[i] = "(" /\ \A j \in 1..(i-1) : text[j] # "("
    IN [type      |-> "CallExpression",
        callee    |-> [type |-> "Identifier", name |-> SubSeq(text, 1, open - 1)],
        arguments |-> ParseArguments(SubSeq(text, open + 1, Len(text) - 1))]

\* the node once the fix of a report has replaced its range
ApplyRewrite(node, rewrite) ==
    IF node.type = "JSXAttribute"
    THEN [node EXCEPT !.value = JSXExpressionContainer(
                                    ParseCall(SubSeq(rewrite.text, 2, Len(rewrite.text) - 1)))]
    ELSE IF rewrite.loc = <<>>
    THEN [node EXCEPT !.arguments = ParseArguments(rewrite.text)]
    ELSE [node EXCEPT !.arguments = ReplaceAt(@, rewrite.loc, ParseCall(rewrite.text))]

----------------------------------------------------------------------------
(* The rule on every short call: arguments are added, the call is analysed,   *)
(* the fix of a reported call is applied                                     *)

MaxSlots == 3
MaxTokens == 3

\* two base classes, one of them with a backslash, and two modifiers whose
\* known order (md before lg) is not their alphabetical order
TokenPool == {<<"m">>, <<"w", "\\", "z">>, <<"l", "g", ":", "p">>, <<"m", "d", ":", "p">>}

\* the source texts of the arguments that are no string literals: pairwise
\* different expressions, named in their order in the call
OpaqueTexts == <<<<"v">>, <<"w">>, <<"x">>, <<"y">>, <<"z">>>>

\* the number of classes in the string arguments
TokenCount(arguments) == Len(CollectClasses(extractArgumentInfo(arguments)))

Init ==
    /\ args = <<>>
    /\ report = NoReport
    /\ fix = NoFix
    /\ after = <<>>
    /\ phase = "edit"
    /\ ParserIdle /\ ComparatorIdle /\ SorterIdle /\ NodesIdle

AddStringArgument ==
    /\ phase = "edit"
    /\ Len(args) < MaxSlots
    /\ args' = Append(args, [type |-> "Literal", value |-> <<>>])
    /\ UNCHANGED <<report, fix, after, phase, parserVars, comparatorVars, sorterVars, nodeVars>>

AddOpaqueArgument ==
    /\ phase = "edit"
    /\ Len(args) < MaxSlots
    /\ LET used == Len(SelectSeq(args, LAMBDA a : a.type \notin StringTypes))
       IN /\ used < Len(OpaqueTexts)
          /\ args' = Append(args, [type |-> "Identifier", value |-> OpaqueTexts[used + 1]])
    /\ UNCHANGED <<report, fix, after, phase, parserVars, comparatorVars, sorterVars, nodeVars>>

AddClass ==
    /\ phase = "edit"
    /\ Len(args) > 0
    /\ args[Len(args)].type \in StringTypes
    /\ TokenCount(args) < MaxTokens
    /\ \E t \in TokenPool :
          args' = [args EXCEPT ![Len(args)].value =
                      IF @ = <<>> THEN t ELSE @ \o <<" ">> \o t]
    /\ UNCHANGED <<report, fix, after, phase, parserVars, comparatorVars, sorterVars, nodeVars>>

Lint ==
    /\ phase = "edit"
    /\ report' = handleStandardFunctionCall(args)
    /\ fix' = generateFunctionCallFix(extractArgumentInfo(args))
    /\ phase' = "linted"
    /\ UNCHANGED <<args, after, parserVars, comparatorVars, sorterVars, nodeVars>>

ApplyFix ==
    /\ phase = "linted"
    /\ report.messageId # "none"
    /\ fix.ok
    /\ after' = ParseArguments(fix.text)
    /\ phase' = "fixed"
    /\ UNCHANGED <<args, report, fix, parserVars, comparatorVars, sorterVars, nodeVars>>

Next == AddStringArgument \/ AddOpaqueArgument \/ AddClass \/ Lint \/ ApplyFix

Spec == Init /\ [][Next]_vars

----------------------------------------------------------------------------
(* The rule on calls drawn whole from a pool of arguments, empty and         *)
(* whitespace-only strings among them                                       *)

MaxBlankSlots == 3

\* the arguments of the calls: the strings "", " " and a tab with a space, a
\* string of one class, strings of two classes, one of them between spaces,
\* two with the same modifiers in different orders and one with a backslash
\* before the colon of a modifier, an identifier
BlankPool ==
    {[type |-> "Literal", value |-> s] :
        s \in {<<>>, <<" ">>, <<"\t", " ">>, <<"m">>, <<" ", "l", "g", ":", "p", " ", "m", " ">>,
               <<"l", "g", ":", "p", " ", "m", "d", ":", "p">>, <<"m", "d", ":", "p", " ", "l", "g", ":", "p">>, <<"w", "\\", ":", "p", " ", "w", ":", "q">>}}
    \cup {[type |-> "TemplateLiteral", value |-> <<" ">>],
          [type |-> "Identifier", value |-> <<"v">>]}

BlankCalls == UNION {[1..n -> BlankPool] : n \in 0..MaxBlankSlots}

InitBlank ==
    /\ args \in BlankCalls
    /\ report = NoReport
    /\ fix = NoFix
    /\ after = <<>>
    /\ phase = "edit"
    /\ ParserIdle /\ ComparatorIdle /\ SorterIdle /\ NodesIdle

NextBlank == Lint \/ ApplyFix

SpecBlank == InitBlank /\ [][NextBlank]_vars

----------------------------------------------------------------------------
(* Properties of the rule *)

\* how often x occurs in the sequence s
Occurrences(x, s) == Cardinality({i \in 1..Len(s) : s[i] = x})

\* the two sequences hold the same elements, each as often
SameMultiset(s, t) ==
    /\ Len(s) = Len(t)
    /\ \A x \in Range(s) \cup Range(t) : Occurrences(x, s) = Occurrences(x, t)

\* some modifier other than null has classes in two different strings
NonNullModifierInTwoStrings(classStrings) ==
    \E i, j \in 1..Len(classStrings) :
        /\ i # j
        /\ \E c \in Range(ClassesOf(classStrings[i])), d \in Range(ClassesOf(classStrings[j])) :
              /\ extractModifier(c) # Null
              /\ extractModifier(c) = extractModifier(d)

\* C1: hasSplitModifiers is true if and only if some non-null modifier occurs
\* in the groups of at least two of the strings; base classes in two strings do
\* not make it true.
C1_SplitIffNonNullModifierInTwoStrings ==
    phase = "linted" =>
        LET classStrings == ClassStrings(extractArgumentInfo(args))
        IN hasSplitModifiers(classStrings) <=> NonNullModifierInTwoStrings(classStrings)

\* C2: when the fix of a call is applied, the classes of the string arguments
\* of the new call are the classes of the string arguments of the old call,
\* each as often.
C2_FixKeepsClasses ==
    phase = "fixed" =>
        SameMultiset(CollectClasses(extractArgumentInfo(after)),
                     CollectClasses(extractArgumentInfo(args)))

\* C3: in the arguments a fix writes, the arguments that are no string literals
\* reappear with their text, in their order; the new strings are one block,
\* and as many other arguments stand before it as stood before the first
\* string literal of the call.
C3_OpaqueArgumentsKept ==
    (phase = "linted" /\ fix.ok) =>
        LET info == extractArgumentInfo(args)
            out == fix.allArguments
            IsNew(k) == Head(out[k]) = "\""
            opaqueIn == SelectSeq(info, LAMBDA a : ~a.isStringLiteral)
            opaqueOut == SelectSeq(out, LAMBDA t : Head(t) # "\"")
            firstString == CHOOSE i \in 1..Len(info) :
                              /\ info[i].isStringLiteral
                              /\ \A j \in 1..(i-1) : ~info[j].isStringLiteral
            firstNew == CHOOSE k \in 1..Len(out) :
                           IsNew(k) /\ \A j \in 1..(k-1) : ~IsNew(j)
        IN /\ opaqueOut = [i \in 1..Len(opaqueIn) |-> opaqueIn[i].node.value]
           /\ \E k \in 1..Len(out) : IsNew(k)
           /\ \A i, j, k \in 1..Len(out) : (i < j /\ j < k /\ IsNew(i) /\ IsNew(k)) => IsNew(j)
           /\ Cardinality({k \in 1..Len(out) : IsNew(k)}) = Len(fix.newStringArguments)
           /\ firstNew - 1 = firstString - 1

\* a fix with two new strings for a call with another argument on either side
\* of its string literal
C3_Witness ==
    /\ phase = "linted"
    /\ fix.ok
    /\ Len(args) = 3
    /\ args[1].type = "Identifier"
    /\ args[2].type = "Literal"
    /\ args[3].type = "Identifier"
    /\ Len(fix.newStringArguments) >= 2

C5_ViolationPriority ==
    phase = "linted" =>
        LET info == extractArgumentInfo(args)
            classStrings == ClassStrings(info)
            bad == {i \in 1..Len(info) :
                      /\ IsClassArgument(info[i])
                      /\ \/ mixesBaseAndModifiers(info[i].classString)
                         \/ hasMultipleModifierGroups(info[i].classString)}
            first == CHOOSE i \in bad : \A j \in bad : i <= j
        IN IF hasSplitModifiers(classStrings)
           THEN report.messageId = "splitModifier"
           ELSE IF bad = {}
           THEN report.messageId = "none"
           ELSE /\ report.index = first - 1
                /\ mixesBaseAndModifiers(info[first].classString)
                     => report.messageId = "mixedBaseAndModifiers"
                /\ ~mixesBaseAndModifiers(info[first].classString)
                     => report.messageId = "multipleModifierGroups"

\* a string argument that is not the first argument, with a base class and two
\* modifiers, was reported as mixing base and modifier classes
C5_Witness ==
    /\ phase = "linted"
    /\ report.messageId = "mixedBaseAndModifiers"
    /\ report.index >= 1
    /\ Len(groupClassString(args[report.index + 1].value)) >= 3

----------------------------------------------------------------------------
(* The parser applied to every string over a small alphabet *)

MaxRawLen == 5
ParserChars == {"a", ":", " ", "\t"}

InitParser ==
    /\ raw = <<>>
    /\ token = NoToken
    /\ tokens = <<>>
    /\ ppc = "type"
    /\ ComparatorIdle /\ SorterIdle /\ RuleIdle /\ NodesIdle

TypeChar ==
    /\ ppc = "type"
    /\ Len(raw) < MaxRawLen
    /\ \E c \in ParserChars : raw' = Append(raw, c)
    /\ UNCHANGED <<token, tokens, ppc, comparatorVars, sorterVars, ruleVars, nodeVars>>

RunParser ==
    /\ ppc = "type"
    /\ token' = parseClass(raw)
    /\ tokens' = parseClasses(raw)
    /\ ppc' = "parsed"
    /\ UNCHANGED <<raw, comparatorVars, sorterVars, ruleVars, nodeVars>>

NextParser == TypeChar \/ RunParser

SpecParser == InitParser /\ [][NextParser]_vars

\* the maximal runs of non-whitespace characters of s, as <<first, last>> index pairs
Fragments(s) ==
    {f \in (1..Len(s)) \X (1..Len(s)) :
        /\ f[1] <= f[2]
        /\ \A i \in f[1]..f[2] : s[i] \notin Whitespace
        /\ (f[1] = 1 \/ s[f[1]-1] \in Whitespace)
        /\ (f[2] = Len(s) \/ s[f[2]+1] \in Whitespace)}

\* C9: parseClass splits at the rightmost ':' : the modifier is null exactly when
\* the string has no ':' (and then base = full = raw); otherwise full is
\* modifier + base, the modifier ends with ':' and the base has no ':'.
C9_ParseClassRightmostColon ==
    ppc = "parsed" =>
        /\ token.full = raw
        /\ (token.modifier = Null) <=> (":" \notin Range(raw))
        /\ token.modifier = Null => token.base = raw
        /\ token.modifier # Null =>
              /\ token.full = token.modifier \o token.base
              /\ token.modifier[Len(token.modifier)] = ":"
              /\ ":" \notin Range(token.base)

\* a string with two colons and a non-empty base has been parsed
C9_Witness ==
    /\ ppc = "parsed"
    /\ Cardinality({i \in 1..Len(raw) : raw[i] = ":"}) >= 2
    /\ token.modifier # Null
    /\ token.base # <<>>

\* C10: parseClasses returns, in input order, exactly one token per maximal
\* non-whitespace fragment of the string; an empty or whitespace-only string
\* gives the empty sequence.
C10_ParseClassesFragments ==
    ppc = "parsed" =>
        LET F == Fragments(raw) IN
        /\ Len(tokens) = Cardinality(F)
        /\ \A f \in F :
              LET k == 1 + Cardinality({g \in F : g[1] < f[1]})
              IN /\ tokens[k].full = SubSeq(raw, f[1], f[2])
                 /\ tokens[k] = parseClass(SubSeq(raw, f[1], f[2]))

\* a string with leading whitespace and a repeated separator gave two tokens
C10_Witness ==
    /\ ppc = "parsed"
    /\ Len(raw) >= 4
    /\ raw[1] \in Whitespace
    /\ \E i \in 2..(Len(raw)-1) : raw[i] \in Whitespace /\ raw[i+1] \in Whitespace
    /\ Len(tokens) = 2

----------------------------------------------------------------------------
(* compareModifiers applied to every triple of a pool of modifiers *)

\* every tier, known and unknown names within a tier, chains, an empty name
ModifierPool ==
    {Null, <<"f", "o", "c", "u", "s", ":">>, <<"h", "o", "v", "e", "r", ":">>, <<"g", "r", "o", "u", "p", "-", "h", "o", "v", "e", "r", ":">>, <<"h", "o", "v", "e", "r", ":", "f", "o", "c", "u", "s", ":">>,
     <<"m", "d", ":">>, <<"l", "g", ":">>, <<"m", "d", ":", "h", "o", "v", "e", "r", ":">>, <<"d", "a", "r", "k", ":">>,
     <<"a", "r", "i", "a", "-", "c", "h", "e", "c", "k", "e", "d", ":">>, <<"a", "r", "i", "a", "-", "b", "u", "s", "y", ":">>, <<"d", "a", "t", "a", "-", "s", "t", "a", "t", "e", ":">>,
     <<"[", "a", "]", ":">>, <<"z", "a", ":">>, <<"z", "b", ":">>, <<"z", "z", ":">>, <<":">>,
     <<"[", "a", "]", ":", "m", "d", ":", "h", "o", "v", "e", "r", ":">>, <<"d", "a", "r", "k", ":", "m", "d", ":", "h", "o", "v", "e", "r", ":">>, <<"m", "d", ":", "d", "a", "r", "k", ":">>, <<"d", "a", "r", "k", ":", "h", "o", "v", "e", "r", ":">>,
     <<"p", "e", "e", "r", "-", "f", "o", "c", "u", "s", ":">>, <<"h", "a", "s", "-", "c", "h", "e", "c", "k", "e", "d", ":">>, <<"s", "u", "p", "p", "o", "r", "t", "s", "-", "g", "r", "i", "d", ":">>,
     <<"d", "a", "t", "a", "-", "[", "a", "]", ":">>, <<"a", "r", "i", "a", "-", "h", "1", ":">>, <<"l", "g", ":", "x", ":">>}

InitComparator ==
    /\ ma \in ModifierPool
    /\ mb \in ModifierPool
    /\ mc \in ModifierPool
    /\ cmp = NoCmp
    /\ cpc = "chosen"
    /\ ParserIdle /\ SorterIdle /\ RuleIdle /\ NodesIdle

Compare ==
    /\ cpc = "chosen"
    /\ cmp' = [ab |-> compareModifiers(ma, mb), ba |-> compareModifiers(mb, ma),
               bc |-> compareModifiers(mb, mc), ac |-> compareModifiers(ma, mc),
               pa |-> getModifierPriority(ma), pb |-> getModifierPriority(mb),
               oa |-> getModifierSortOrder(ma), ob |-> getModifierSortOrder(mb)]
    /\ cpc' = "compared"
    /\ UNCHANGED <<ma, mb, mc, parserVars, sorterVars, ruleVars, nodeVars>>

NextComparator == Compare

SpecComparator == InitComparator /\ [][NextComparator]_vars

Sign(n) == IF n < 0 THEN -1 ELSE IF n > 0 THEN 1 ELSE 0

\* C6: compareModifiers is a total order on modifiers, null included: the sign
\* of compare(a,b) is the opposite of the sign of compare(b,a); compare(a,b) <= 0
\* and compare(b,c) <= 0 imply compare(a,c) <= 0; compare(a,b) = 0 only for a = b.
C6_CompareModifiersTotalOrder ==
    cpc = "compared" =>
        /\ Sign(cmp.ab) = - Sign(cmp.ba)
        /\ (cmp.ab <= 0 /\ cmp.bc <= 0) => cmp.ac <= 0
        /\ cmp.ab = 0 => ma = mb

\* three different modifiers of one tier and one rank, ordered by their text alone
C6_Witness ==
    /\ cpc = "compared"
    /\ ma # Null /\ mb # Null /\ ma # mb /\ mb # mc
    /\ getModifierPriority(ma) = getModifierPriority(mb)
    /\ getModifierSortOrder(ma) = getModifierSortOrder(mb)
    /\ getModifierPriority(mb) = getModifierPriority(mc)
    /\ getModifierSortOrder(mb) = getModifierSortOrder(mc)
    /\ cmp.ab < 0 /\ cmp.bc < 0 /\ cmp.ac < 0

\* C7: a modifier of a lower tier compares below a modifier of a higher tier,
\* whatever their ranks within the tiers.
C7_TierMonotonic ==
    cpc = "compared" =>
        (getModifierPriority(ma) < getModifierPriority(mb) => cmp.ab < 0)

\* the lower tier's modifier has the higher rank within its tier
C7_Witness ==
    /\ cpc = "compared"
    /\ getModifierPriority(ma) < getModifierPriority(mb)
    /\ getModifierSortOrder(ma) > getModifierSortOrder(mb)
    /\ cmp.ab < 0

\* the segments of a modifier: its non-empty pieces between the colons
Segments(m) == FilterNonEmpty(SplitOn(m, ":", <<>>))

\* some segment of the modifier is one of the names
SegmentNamed(names, m) == \E i \in 1..Len(Segments(m)) : Segments(m)[i] \in Range(names)

\* the tier by the first rule that matches, in the fixed order of the rules
TierByPrecedence(m) ==
    IF m = Null THEN BASE
    ELSE IF TestARBITRARY(m) THEN ARBITRARY
    ELSE IF /\ Cardinality({i \in 1..Len(m) : m[i] = ":"}) > 1
            /\ SegmentNamed(RESPONSIVE_BREAKPOINTS, m)
            /\ SegmentNamed(PSEUDO_CLASS_VARIANTS, m)
         THEN CHAINED
    ELSE IF IsPrefix(<<"d", "a", "r", "k", ":">>, m) THEN DARK
    ELSE IF TestARIA(m) \/ TestDATA(m) THEN ARIA_DATA
    ELSE IF Segments(m) # <<>> /\ m[1] # ":" /\ Segments(m)[1] \in Range(RESPONSIVE_BREAKPOINTS)
         THEN RESPONSIVE
    ELSE IF \/ (Segments(m) # <<>> /\ m[1] # ":" /\ Segments(m)[1] \in Range(PSEUDO_CLASS_VARIANTS))
            \/ TestGROUP_PEER(m) \/ TestHAS(m) \/ TestSUPPORTS(m)
         THEN PSEUDO_CLASS
    ELSE UNKNOWN

HasAriaDataSegment(m) ==
    \E i \in 1..Len(Segments(m)) :
        IsPrefix(<<"a", "r", "i", "a", "-">>, Segments(m)[i]) \/ IsPrefix(<<"d", "a", "t", "a", "-">>, Segments(m)[i])

\* the modifier is classified by the arbitrary, chained or dark rule
ClassifiedEarlier(m) ==
    \/ TestARBITRARY(m)
    \/ /\ Cardinality({i \in 1..Len(m) : m[i] = ":"}) > 1
       /\ SegmentNamed(RESPONSIVE_BREAKPOINTS, m)
       /\ SegmentNamed(PSEUDO_CLASS_VARIANTS, m)
    \/ IsPrefix(<<"d", "a", "r", "k", ":">>, m)

\* C21: a modifier with a segment that begins with aria- or data-, and that the
\* arbitrary, chained and dark rules do not classify, has the tier ARIA_DATA,
\* whatever characters follow the prefix.
C21_AriaDataPrefixTier ==
    (cpc = "compared" /\ ma # Null /\ HasAriaDataSegment(ma) /\ ~ClassifiedEarlier(ma))
        => cmp.pa = ARIA_DATA

\* what the code does keep: the tier ARIA_DATA for a modifier that begins with
\* aria- or data- and lower-case letters or hyphens up to its first colon
C21_LowerCaseNames ==
    (/\ cpc = "compared" /\ ma # Null /\ ~ClassifiedEarlier(ma)
     /\ IsPrefix(<<"a", "r", "i", "a", "-">>, ma) \/ IsPrefix(<<"d", "a", "t", "a", "-">>, ma)
     /\ Len(Segments(ma)[1]) > 5
     /\ \A i \in 6..Len(Segments(ma)[1]) : ma[i] \in LowerOrHyphen)
        => cmp.pa = ARIA_DATA

\* the name of a modifier: the modifier without its last character, the colon
NameOf(m) == SubSeq(m, 1, Len(m) - 1)

\* the name of the modifier is in the list of known variants
Listed(m) == NameOf(m) \in Range(KNOWN_VARIANT_ORDER)

\* the position of a listed modifier in the list
ListPosition(m) ==
    CHOOSE i \in 1..Len(KNOWN_VARIANT_ORDER) :
        /\ KNOWN_VARIANT_ORDER[i] = NameOf(m)
        /\ \A j \in 1..(i-1) : KNOWN_VARIANT_ORDER[j] # NameOf(m)

\* C22: two modifiers of one tier whose names are in KNOWN_VARIANT_ORDER are
\* ordered by their positions in that list; a modifier whose name is not in the
\* list has a sort order of 1000 or more and comes after every listed modifier
\* of its tier.
C22_KnownOrderWithinTier ==
    (cpc = "compared" /\ ma # Null /\ mb # Null) =>
        /\ ~Listed(ma) => cmp.oa >= 1000
        /\ Listed(ma) => cmp.oa < 1000
        /\ (cmp.pa = cmp.pb /\ Listed(ma) /\ Listed(mb))
              => Sign(cmp.ab) = Sign(ListPosition(ma) - ListPosition(mb))
        /\ (cmp.pa = cmp.pb /\ Listed(ma) /\ ~Listed(mb)) => cmp.ab < 0

\* md: before lg: although l is before m, and hover: before the unlisted
\* hover:focus: of the same tier
C22_Witness ==
    /\ cpc = "compared"
    /\ ma = <<"m", "d", ":">> /\ mb = <<"l", "g", ":">> /\ cmp.ab < 0 /\ cmp.pa = cmp.pb
    /\ mc = <<"l", "g", ":", "x", ":">> /\ ~Listed(mc) /\ cmp.bc < 0

\* C24: for all modifiers a and b, null included, compareModifiers(a, b) is
\* -1, 0 or 1.
C24_CompareIsSign ==
    cpc = "compared" => cmp.ab \in {-1, 0, 1}

\* what the code does keep: -1, 0 or 1 when the two modifiers have the same
\* priority and the same sort order and localeCompare decides
C24_TieBreakIsSign ==
    (cpc = "compared" /\ cmp.pa = cmp.pb /\ cmp.oa = cmp.ob) => cmp.ab \in {-1, 0, 1}

----------------------------------------------------------------------------
(* sortClassesByModifierGroups applied to every short list of classes *)

MaxClasses == 4

ClassPool ==
    {<<"m">>, <<"p">>, <<"h", "o", "v", "e", "r", ":", "m">>, <<"h", "o", "v", "e", "r", ":", "p">>, <<"f", "o", "c", "u", "s", ":", "p">>, <<"m", "d", ":", "p">>, <<"m", "d", ":", "h", "o", "v", "e", "r", ":", "p">>}

\* the class names of a list of groups, group after group
RECURSIVE FlattenGroups(_)
FlattenGroups(gs) ==
    IF gs = <<>> THEN <<>> ELSE Head(gs).classes \o FlattenGroups(Tail(gs))

InitSorter ==
    /\ sclasses = <<>>
    /\ canon = <<>>
    /\ recanon = <<>>
    /\ shuffled = <<>>
    /\ spc = "collect"
    /\ ParserIdle /\ ComparatorIdle /\ RuleIdle /\ NodesIdle

AddClassName ==
    /\ spc = "collect"
    /\ Len(sclasses) < MaxClasses
    /\ \E c \in ClassPool : sclasses' = Append(sclasses, c)
    /\ UNCHANGED <<canon, recanon, shuffled, spc,
                   parserVars, comparatorVars, ruleVars, nodeVars>>

Canonicalize ==
    /\ spc = "collect"
    /\ canon' = sortClassesByModifierGroups(sclasses)
    /\ spc' = "sorted"
    /\ UNCHANGED <<sclasses, recanon, shuffled,
                   parserVars, comparatorVars, ruleVars, nodeVars>>

Recanonicalize ==
    /\ spc = "sorted"
    /\ recanon' = sortClassesByModifierGroups(FlattenGroups(canon))
    /\ spc' = "resorted"
    /\ UNCHANGED <<sclasses, canon, shuffled, parserVars, comparatorVars, ruleVars, nodeVars>>

\* the list with the classes at i and j exchanged
Exchange(classes, i, j) == [classes EXCEPT ![i] = classes[j], ![j] = classes[i]]

\* sortClassesByModifierGroups on the same classes in another order
CanonicalizeShuffled ==
    /\ spc = "sorted"
    /\ \E i \in 1..(Len(sclasses) - 1) :
          /\ shuffled' = Exchange(sclasses, i, i + 1)
          /\ recanon' = sortClassesByModifierGroups(Exchange(sclasses, i, i + 1))
    /\ spc' = "shuffled"
    /\ UNCHANGED <<sclasses, canon, parserVars, comparatorVars, ruleVars, nodeVars>>

NextSorter == AddClassName \/ Canonicalize \/ Recanonicalize \/ CanonicalizeShuffled

SpecSorter == InitSorter /\ [][NextSorter]_vars

\* C8: sortClassesByModifierGroups is idempotent: applied to the flattened
\* classes of its own result it gives the same groups, in the same order, with
\* the same classes in the same order inside each group.
C8_CanonicalizeIdempotent ==
    spc = "resorted" => recanon = canon

\* an unsorted list of three groups, one of them with two classes, was redone
C8_Witness ==
    /\ spc = "resorted"
    /\ Len(canon) >= 3
    /\ \E i \in 1..Len(canon) : Len(canon[i].classes) >= 2
    /\ FlattenGroups(canon) # sclasses

\* C23: the result of sortClassesByModifierGroups depends on the classes and
\* on how often each occurs, not on their order: on a list and on the list
\* with two neighbouring classes exchanged it gives the same groups in the
\* same order with the same classes in the same order inside each group; every
\* permutation of a list is reached by such exchanges.
C23_CanonicalizeIgnoresOrder ==
    spc = "shuffled" => recanon = canon

\* classes of three modifiers, two of one modifier among them, in two
\* different orders, neither of them the order of the result
C23_Witness ==
    /\ spc = "shuffled"
    /\ shuffled # sclasses
    /\ Len(canon) >= 3
    /\ \E i \in 1..Len(canon) : Len(canon[i].classes) >= 2
    /\ FlattenGroups(canon) # sclasses
    /\ FlattenGroups(canon) # shuffled
    /\ recanon = canon

----------------------------------------------------------------------------
(* The listeners on every node of a pool: a node is visited under some       *)
(* options, and the fix of one of its reports is applied                     *)

\* the deepest a class string lies below the variants property
MaxDepth == 3

\* a string without violation, one that mixes base and modifier classes out of
\* order, and one that holds a class with a backslash
LeafStrings == {<<"p">>, <<"h", "o", "v", "e", "r", ":", "p", " ", "m">>, <<"w", "\\", "z", " ", "h", "o", "v", "e", "r", ":", "p">>}

Leaves == {Literal(s) : s \in LeafStrings}

\* a class string, or one below d objects of a single property
RECURSIVE Chains(_)
Chains(d) ==
    IF d = 0 THEN Leaves
    ELSE Leaves \cup {ObjectExpression(<<Property(<<"x">>, c)>>) : c \in Chains(d - 1)}

SubVariantKeys == {<<"s", "m">>, <<"l", "g">>}

\* the objects below a variant name: one or two properties, the names of the
\* two possibly the same, or one property with a quoted name
SubVariants ==
    LET firsts == {Property(k, c) : k \in SubVariantKeys, c \in Chains(MaxDepth - 2)}
        seconds == {Property(k, c) : k \in SubVariantKeys, c \in Leaves}
    IN {ObjectExpression(<<f>>) : f \in firsts}
       \cup {ObjectExpression(<<f, g>>) : f \in firsts, g \in seconds}
       \cup {ObjectExpression(<<QuotedProperty(<<"s", "m">>, c)>>) : c \in Leaves}

\* the values of the variants property
VariantsObjects ==
    {ObjectExpression(<<Property(<<"s", "i", "z", "e">>, v)>>) : v \in Leaves \cup SubVariants}
       \cup {ObjectExpression(<<>>)}

\* calls of the two patterns with variants, over every variants object
TreeCalls ==
    {CallExpression(<<"c", "n">>, <<Literal(<<"p">>),
                             ObjectExpression(<<Property(<<"v", "a", "r", "i", "a", "n", "t", "s">>, v)>>)>>) :
        v \in VariantsObjects}
    \cup {CallExpression(<<"c", "n">>, <<ObjectExpression(<<Property(<<"b", "a", "s", "e">>, Literal(<<"p">>)),
                                                    Property(<<"v", "a", "r", "i", "a", "n", "t", "s">>, v)>>)>>) :
        v \in VariantsObjects}

SomeVariants == ObjectExpression(<<Property(<<"s", "i", "z", "e">>,
                    ObjectExpression(<<Property(<<"s", "m">>, Literal(<<"h", "o", "v", "e", "r", ":", "p", " ", "m">>))>>))>>)

MixedArray == ArrayExpression(<<Literal(<<"h", "o", "v", "e", "r", ":", "p", " ", "m">>), Identifier(<<"v">>)>>)

FirstArguments ==
    {Literal(<<"p">>), Literal(<<"h", "o", "v", "e", "r", ":", "p", " ", "m">>), TemplateLiteral(<<"h", "o", "v", "e", "r", ":", "p", " ", "m">>),
     Literal(<<"h", "o", "v", "e", "r", ":", "p", " ", "m", "d", ":", "p">>),
     ArrayExpression(<<Literal(<<"h", "o", "v", "e", "r", ":", "p">>), Literal(<<"m">>)>>), MixedArray,
     ArrayExpression(<<>>), Identifier(<<"v">>),
     ObjectExpression(<<Property(<<"b", "a", "s", "e">>, Literal(<<"h", "o", "v", "e", "r", ":", "p", " ", "m">>)),
                        Property(<<"v", "a", "r", "i", "a", "n", "t", "s">>, SomeVariants)>>),
     ObjectExpression(<<Property(<<"b", "a", "s", "e">>, MixedArray),
                        Property(<<"v", "a", "r", "i", "a", "n", "t", "s">>, SomeVariants)>>),
     ObjectExpression(<<Property(<<"b", "a", "s", "e">>, Identifier(<<"v">>)),
                        Property(<<"b", "a", "s", "e">>, Literal(<<"h", "o", "v", "e", "r", ":", "p", " ", "m">>)),
                        Property(<<"v", "a", "r", "i", "a", "n", "t", "s">>, Identifier(<<"w">>))>>),
     ObjectExpression(<<QuotedProperty(<<"b", "a", "s", "e">>, Literal(<<"h", "o", "v", "e", "r", ":", "p", " ", "m">>)),
                        Property(<<"v", "a", "r", "i", "a", "n", "t", "s">>, SomeVariants)>>),
     ObjectExpression(<<Property(<<"v", "a", "r", "i", "a", "n", "t", "s">>, SomeVariants)>>),
     ObjectExpression(<<Property(<<"b", "a", "s", "e">>, Literal(<<"h", "o", "v", "e", "r", ":", "p", " ", "m">>))>>)}

SecondArguments ==
    {ObjectExpression(<<Property(<<"v", "a", "r", "i", "a", "n", "t", "s">>, SomeVariants)>>),
     ObjectExpression(<<Property(<<"v", "a", "r", "i", "a", "n", "t", "s">>, Identifier(<<"w">>))>>),
     ObjectExpression(<<QuotedProperty(<<"v", "a", "r", "i", "a", "n", "t", "s">>, SomeVariants)>>),
     ObjectExpression(<<Property(<<"o", "t", "h", "e", "r">>, SomeVariants)>>),
     Identifier(<<"w">>)}

\* the source text of an argument is kept for identifiers only: a call of the
\* standard pattern is in the pool when the fix has no other text to copy
HasText(node) ==
    \/ detectFunctionPattern(node).type # "standard"
    \/ \A i \in 1..Len(node.arguments) :
          node.arguments[i].type \in {"Literal", "TemplateLiteral", "Identifier"}
    \/ \A i \in 1..Len(node.arguments) :
          node.arguments[i].type \notin {"Literal", "TemplateLiteral"}

ShapeCalls ==
    {c \in {CallExpression(<<"c", "n">>, <<a>>) : a \in FirstArguments}
           \cup {CallExpression(<<"c", "n">>, <<a, b>>) : a \in FirstArguments, b \in SecondArguments}
           \cup {CallExpression(<<"c", "n">>, <<>>)} :
        HasText(c)}

AttributeValues ==
    {NoValue, JSXExpressionContainer(Identifier(<<"v">>))}
    \cup {Literal(s) : s \in LeafStrings}
    \cup {JSXExpressionContainer(Literal(s)) : s \in LeafStrings}
    \cup {JSXExpressionContainer(TemplateLiteral(s)) : s \in LeafStrings}

Attributes ==
    {JSXAttribute(n, v) : n \in {<<"c", "l", "a", "s", "s", "N", "a", "m", "e">>, <<"c", "l", "a", "s", "s">>}, v \in AttributeValues}

\* options that name the function of the fixes and the attributes
CustomOptions ==
    [classFunctions    |-> Null,
     preferredFunction |-> <<" ", "t", "w", " ">>,
     classAttributes   |-> <<<<"c", "l", "a", "s", "s">>, <<" ">>>>]

\* calls of several functions, one of them not called by a plain name
CalleeNames == {<<"c", "n">>, <<"c", "l", "s", "x">>, <<"c", "v", "a">>, <<"c", "l", "a", "s", "s", "n", "a", "m", "e", "s">>, <<"t", "v">>, <<"t", "w", "M", "e", "r", "g", "e">>}

NamedCalls ==
    {CallExpression(f, as) :
        f \in CalleeNames,
        as \in {<<Literal(<<"h", "o", "v", "e", "r", ":", "p", " ", "m">>)>>, <<Literal(<<"p">>)>>,
                <<Literal(<<"h", "o", "v", "e", "r", ":", "p">>), Literal(<<"h", "o", "v", "e", "r", ":", "m">>)>>,
                <<Literal(<<"h", "o", "v", "e", "r", ":", "p", " ", "m">>), ObjectExpression(<<Property(<<"v", "a", "r", "i", "a", "n", "t", "s">>,
                                                                     SomeVariants)>>)>>}}
    \cup {[type |-> "CallExpression",
           callee |-> [type |-> "MemberExpression", name |-> <<"c", "n">>],
           arguments |-> <<Literal(<<"h", "o", "v", "e", "r", ":", "p", " ", "m">>)>>]}

OptionPool ==
    {NoOptions,
     [classFunctions |-> <<>>, preferredFunction |-> <<>>, classAttributes |-> <<>>],
     [classFunctions |-> <<<<"c", "l", "s", "x">>, <<"t", "v">>>>, preferredFunction |-> Null,
      classAttributes |-> Null],
     [classFunctions |-> <<<<" ">>>>, preferredFunction |-> <<"c", "l", "s", "x">>,
      classAttributes |-> Null]}

InitNodes ==
    /\ \/ /\ visited \in TreeCalls \cup ShapeCalls \cup Attributes
          /\ given \in {NoOptions, CustomOptions}
       \/ /\ visited \in NamedCalls
          /\ given \in OptionPool
    /\ detected = "none"
    /\ reports = <<>>
    /\ rewritten = NoNode
    /\ applied = 0
    /\ vpc = "parsed"
    /\ ParserIdle /\ ComparatorIdle /\ SorterIdle /\ RuleIdle

VisitCallExpression ==
    /\ vpc = "parsed"
    /\ visited.type = "CallExpression"
    /\ detected' = PatternOf(visited, NormalizeOptions(given))
    /\ reports' = OnCallExpression(visited, NormalizeOptions(given))
    /\ vpc' = "visited"
    /\ UNCHANGED <<visited, given, rewritten, applied,
                   parserVars, comparatorVars, sorterVars, ruleVars>>

VisitJSXAttribute ==
    /\ vpc = "parsed"
    /\ visited.type = "JSXAttribute"
    /\ reports' = OnJSXAttribute(visited, NormalizeOptions(given))
    /\ vpc' = "visited"
    /\ UNCHANGED <<visited, given, detected, rewritten, applied,
                   parserVars, comparatorVars, sorterVars, ruleVars>>

\* fixer.replaceTextRange(fix.range, fix.text) for the fix of one report
ApplyReportFix ==
    /\ vpc = "visited"
    /\ \E k \in 1..Len(reports) :
          /\ reports[k].fix.text # Null
          /\ rewritten' = ApplyRewrite(visited, reports[k].fix)
          /\ applied' = k
    /\ vpc' = "fixed"
    /\ UNCHANGED <<visited, given, detected, reports,
                   parserVars, comparatorVars, sorterVars, ruleVars>>

NextNodes == VisitCallExpression \/ VisitJSXAttribute \/ ApplyReportFix

SpecNodes == InitNodes /\ [][NextNodes]_vars

----------------------------------------------------------------------------
(* Claims on the listeners *)

\* an object expression with a property whose identifier key is the name
HasField(node, name) ==
    /\ node.type = "ObjectExpression"
    /\ \E i \in 1..Len(node.properties) :
          /\ node.properties[i].keyType = "Identifier"
          /\ node.properties[i].key = name

\* the embedded form: the first argument is an object with base and variants
EmbeddedForm(node) ==
    /\ Len(node.arguments) >= 1
    /\ HasField(node.arguments[1], <<"b", "a", "s", "e">>)
    /\ HasField(node.arguments[1], <<"v", "a", "r", "i", "a", "n", "t", "s">>)

Handled == vpc = "visited" /\ visited.type = "CallExpression" /\ detected # "none"

C12_WitnessFlat ==
    /\ Handled
    /\ detected = "standard"
    /\ Len(visited.arguments) >= 1
    /\ HasField(visited.arguments[1], <<"v", "a", "r", "i", "a", "n", "t", "s">>)

\* the external form as stated: two arguments or more, the first a string, an
\* array of strings or an opaque expression, the second an object with a
\* variants property whose value is an object
ExternalForm(node) ==
    /\ Len(node.arguments) >= 2
    /\ \/ node.arguments[1].type \in {"Literal", "TemplateLiteral", "Identifier"}
       \/ /\ node.arguments[1].type = "ArrayExpression"
          /\ \A i \in 1..Len(node.arguments[1].elements) :
                node.arguments[1].elements[i].type = "Literal"
    /\ node.arguments[2].type = "ObjectExpression"
    /\ \E i \in 1..Len(node.arguments[2].properties) :
          /\ node.arguments[2].properties[i].key = <<"v", "a", "r", "i", "a", "n", "t", "s">>
          /\ node.arguments[2].properties[i].keyType = "Identifier"
          /\ node.arguments[2].properties[i].value.type = "ObjectExpression"

\* C13: the pattern of a handled call is cva-like if and only if the call has
\* two arguments or more, the first a string, an array of strings or an opaque
\* expression, and the second an object with a variants property whose value
\* is an object.
C13_ExternalFormIff ==
    Handled => (detected = "cva-like" <=> ExternalForm(visited))

\* the half of C13 the code keeps when the first argument is a string
C13_StringFirstArgument ==
    (Handled /\ Len(visited.arguments) >= 2
             /\ visited.arguments[1].type \in {"Literal", "TemplateLiteral"}
             /\ HasField(visited.arguments[2], <<"v", "a", "r", "i", "a", "n", "t", "s">>))
        => detected = "cva-like"

\* the modifiers of the classes of a class string, null for a base class
ModifiersOf(classString) ==
    {extractModifier(c) : c \in Range(ClassesOf(classString))}

\* the string mixes base and modifier classes or has two modifier groups or more
LeafViolates(classString) ==
    \/ Null \in ModifiersOf(classString) /\ ModifiersOf(classString) # {Null}
    \/ Cardinality(ModifiersOf(classString) \ {Null}) > 1

\* the locations of the strings at and below a node at loc
RECURSIVE LeafLocationsBelow(_, _)
LeafLocationsBelow(node, loc) ==
    IF node.type \in {"Literal", "TemplateLiteral"} THEN {loc}
    ELSE IF node.type = "ObjectExpression"
    THEN UNION {LeafLocationsBelow(node.properties[i].value, loc \o <<i>>) :
                  i \in 1..Len(node.properties)}
    ELSE {}

\* the locations of the string leaves of the variants tree of a call whose
\* variants are in argument a
VariantLeafLocations(node, a) ==
    UNION {LeafLocationsBelow(node.arguments[a].properties[i].value, <<a, i>>) :
             i \in {j \in 1..Len(node.arguments[a].properties) :
                      /\ node.arguments[a].properties[j].key = <<"v", "a", "r", "i", "a", "n", "t", "s">>
                      /\ node.arguments[a].properties[j].value.type = "ObjectExpression"}}

\* the argument that holds the variants of a handled call with variants
VariantsArgument == IF detected = "cva-like" THEN 2 ELSE 1

HandledTree == Handled /\ detected \in {"cva-like", "tv-like"}

\* C14: for a call with base and variants, every string leaf of the variants
\* tree, at any depth below the variants property, that mixes base and modifier
\* classes or has more than one modifier group is reported at its own location
\* with a fix that wraps that leaf.
C14_EveryLeafReported ==
    HandledTree =>
        \A loc \in VariantLeafLocations(visited, VariantsArgument) :
            LeafViolates(NodeAt(visited.arguments, loc).value) =>
                \E k \in 1..Len(reports) :
                    /\ reports[k].messageId = "complexProperty"
                    /\ reports[k].loc = loc
                    /\ reports[k].fix.text # Null
                    /\ reports[k].fix.loc = loc

\* what the code does keep: a violating leaf two levels below variants, under
\* identifier keys that occur once in their objects, is reported with a fix
C14_DepthTwoReported ==
    HandledTree =>
        \A loc \in VariantLeafLocations(visited, VariantsArgument) :
            LET outer == NodeAt(visited.arguments, SubSeq(loc, 1, 2)).properties
                inner == NodeAt(visited.arguments, SubSeq(loc, 1, 3)).properties
            IN (/\ Len(loc) = 4
                /\ LeafViolates(NodeAt(visited.arguments, loc).value)
                /\ \A i \in 1..Len(inner) :
                      /\ inner[i].keyType = "Identifier"
                      /\ i # loc[4] => inner[i].key # inner[loc[4]].key
                /\ \A i \in 1..Len(outer) :
                      /\ outer[i].keyType = "Identifier"
                      /\ i # loc[3] => outer[i].key # outer[loc[3]].key)
               => \E k \in 1..Len(reports) :
                     /\ reports[k].messageId = "complexProperty"
                     /\ reports[k].loc = loc
                     /\ reports[k].fix.text # Null
                     /\ reports[k].fix.loc = loc

\* the fix of a variant value has been applied
VariantFixApplied ==
    /\ vpc = "fixed"
    /\ visited.type = "CallExpression"
    /\ reports[applied].messageId = "complexProperty"

\* C15: the fix of a variant leaf replaces the node at the location of the leaf
\* that was analysed and nothing else, and its text is the wrap of the class
\* string of the leaf at that location, for every variants tree, repeated key
\* names included.
C15_LeafFixIsOfItsLeaf ==
    VariantFixApplied =>
        LET loc  == reports[applied].fix.loc
            leaf == NodeAt(visited.arguments, loc)
        IN /\ loc \in VariantLeafLocations(visited, VariantsArgument)
           /\ rewritten.arguments =
                 ReplaceAt(visited.arguments, loc, NodeAt(rewritten.arguments, loc))
           /\ LeafViolates(leaf.value)
           /\ reports[applied].fix.text =
                 WrapCall(NormalizeOptions(given).preferredFunction,
                          processClassesIntoArguments(leaf.value))

\* no object of the variants tree at or below a node has two properties of one name
RECURSIVE KeysDistinct(_)
KeysDistinct(node) ==
    node.type = "ObjectExpression" =>
        /\ \A i, j \in 1..Len(node.properties) :
              node.properties[i].key = node.properties[j].key => i = j
        /\ \A i \in 1..Len(node.properties) : KeysDistinct(node.properties[i].value)

\* what the code does keep: C15 on the trees without a repeated key name
C15_LeafFixDistinctKeys ==
    (VariantFixApplied /\ KeysDistinct(visited.arguments[VariantsArgument]))
        => C15_LeafFixIsOfItsLeaf

\* the fix of the base has been applied
BaseFixApplied ==
    /\ vpc = "fixed"
    /\ visited.type = "CallExpression"
    /\ reports[applied].messageId = "mixedBaseAndModifiers"
    /\ detected \in {"cva-like", "tv-like"}

\* the elements of a base value that are no strings
OpaquesOf(value) ==
    IF value.type = "ArrayExpression"
    THEN {value.elements[i] : i \in {j \in 1..Len(value.elements) :
                                        value.elements[j].type # "Literal"}}
    ELSE IF value.type \in {"Literal", "TemplateLiteral"} THEN {}
    ELSE {value}

\* the classes of the strings of a base value
StringClassesOf(value) ==
    IF value.type = "ArrayExpression" THEN ClassesOf(ArrayStrings(value.elements))
    ELSE IF value.type \in {"Literal", "TemplateLiteral"} THEN ClassesOf(value.value)
    ELSE <<>>

\* the classes of the string arguments of a call
CallClassesOf(call) ==
    LET strings == SelectSeq(call.arguments,
                             LAMBDA a : a.type \in {"Literal", "TemplateLiteral"})
    IN ClassesOf(Join([i \in 1..Len(strings) |-> strings[i].value], <<" ">>))

\* C16: the fix of a base removes no content: every element of the base that
\* is no string is an argument of the call that replaces the base, and the
\* classes of that call are the classes of the strings of the base, each as
\* often.
C16_BaseFixKeepsContent ==
    BaseFixApplied =>
        LET loc == reports[applied].fix.loc
            old == NodeAt(visited.arguments, loc)
            new == NodeAt(rewritten.arguments, loc)
        IN /\ \A el \in OpaquesOf(old) : el \in Range(new.arguments)
           /\ SameMultiset(StringClassesOf(old), CallClassesOf(new))

\* what the code does keep: the classes of a base that is a string or an array
\* of strings
C16_StringBaseKept ==
    (BaseFixApplied /\ OpaquesOf(NodeAt(visited.arguments, reports[applied].fix.loc)) = {})
        => C16_BaseFixKeepsContent

----------------------------------------------------------------------------
(* Claims on empty input *)

\* the call has a string argument and every string argument is empty or
\* whitespace only
AllBlank(arguments) ==
    /\ \E i \in 1..Len(arguments) : arguments[i].type \in StringTypes
    /\ \A i \in 1..Len(arguments) :
          arguments[i].type \in StringTypes => Trim(arguments[i].value) = <<>>

----------------------------------------------------------------------------
(* Claims on the wrap of one class string *)

\* the fix applied is the wrap of one value: of a JSX attribute, of a variant
\* value or of a base
WrapApplied ==
    /\ vpc = "fixed"
    /\ reports[applied].messageId \in {"complexJSXAttribute", "complexProperty",
                                       "mixedBaseAndModifiers"}
    /\ visited.type = "CallExpression" => detected \in {"cva-like", "tv-like"}

\* the class string of the value the applied fix has replaced
WrappedString ==
    IF visited.type = "JSXAttribute" THEN extractJSXAttributeValue(visited)
    ELSE LET old == NodeAt(visited.arguments, reports[applied].fix.loc)
         IN IF old.type = "ArrayExpression" THEN ArrayStrings(old.elements)
            ELSE IF old.type \in {"Literal", "TemplateLiteral"} THEN old.value
            ELSE <<>>

\* the node that stands in its place after the fix
WrappingNode ==
    IF visited.type = "JSXAttribute" THEN rewritten.value.expression
    ELSE NodeAt(rewritten.arguments, reports[applied].fix.loc)

\* the strings of the groups of the classes, in the order of the groups
CanonicalStrings(classString) ==
    LET groups == sortClassesByModifierGroups(ClassesOf(classString))
    IN [i \in 1..Len(groups) |-> Join(sortClassesInGroup(groups[i].classes), <<" ">>)]

\* C18: the fix of a single value (a JSX attribute value, a variant value or a
\* base) is made only when the value mixes base and modifier classes or has
\* more than one modifier group, and it puts in its place one call of the
\* preferred function whose arguments are the strings of the canonical groups
\* of the classes of the value, one string per group, in the order of the groups.
C18_WrapIsCallOfCanonicalGroups ==
    WrapApplied =>
        /\ LeafViolates(WrappedString)
        /\ WrappingNode.type = "CallExpression"
        /\ WrappingNode.callee.name = NormalizeOptions(given).preferredFunction
        /\ WrappingNode.arguments =
              [i \in 1..Len(CanonicalStrings(WrappedString)) |->
                  Literal(CanonicalStrings(WrappedString)[i])]

\* what the code does keep: C18 for a value without a backslash, below keys
\* that are not repeated
C18_WrapWithoutBackslash ==
    (/\ WrapApplied
     /\ "\\" \notin Range(WrappedString)
     /\ visited.type = "CallExpression" =>
           \A i \in 1..Len(visited.arguments) : KeysDistinct(visited.arguments[i]))
        => C18_WrapIsCallOfCanonicalGroups

----------------------------------------------------------------------------
(* Claims on the modifier split across strings *)

\* the modifiers of the classes of the strings, string after string and class
\* after class
EncounteredModifiers(classStrings) ==
    LET classes == ClassesOf(Join(classStrings, <<" ">>))
    IN [i \in 1..Len(classes) |-> extractModifier(classes[i])]

\* the modifier has classes in two of the strings or more
InTwoStrings(classStrings, m) ==
    Cardinality({i \in 1..Len(classStrings) : m \in ModifiersOf(classStrings[i])}) > 1

\* the first modifier encountered that is not null and has classes in two
\* strings or more; null when there is none
FirstSplit(classStrings) ==
    LET ms == EncounteredModifiers(classStrings)
        split == {k \in 1..Len(ms) : ms[k] # Null /\ InTwoStrings(classStrings, ms[k])}
    IN IF split = {} THEN Null
       ELSE ms[CHOOSE k \in split : \A j \in split : k <= j]

\* C19: getSplitModifier returns a modifier exactly when hasSplitModifiers is
\* true of the same strings, and the modifier returned is the first one
\* encountered, string after string and class after class, among the modifiers
\* with classes in two strings or more.
C19_SplitModifierIffSplit ==
    phase = "linted" =>
        LET classStrings == ClassStrings(extractArgumentInfo(args))
        IN /\ getSplitModifier(classStrings) # Null <=> hasSplitModifiers(classStrings)
           /\ getSplitModifier(classStrings) = FirstSplit(classStrings)

\* what the code does keep: the modifier returned is the first one encountered
C19_FirstEncountered ==
    phase = "linted" =>
        getSplitModifier(ClassStrings(extractArgumentInfo(args)))
            = FirstSplit(ClassStrings(extractArgumentInfo(args)))

----------------------------------------------------------------------------
(* Claims on the options *)

\* the function names the README gives as the default of classFunctions
DocumentedFunctions == {<<"c", "n">>, <<"c", "l", "s", "x">>, <<"c", "v", "a">>, <<"c", "l", "a", "s", "s", "n", "a", "m", "e", "s">>}

\* a visited call of a plain name, without options, with a string argument
\* that mixes base and modifier classes
ViolatingCallNoOptions ==
    /\ vpc = "visited"
    /\ visited.type = "CallExpression"
    /\ visited.callee.type = "Identifier"
    /\ given = NoOptions
    /\ \E i \in 1..Len(visited.arguments) :
          /\ visited.arguments[i].type = "Literal"
          /\ LeafViolates(visited.arguments[i].value)

\* C20: without options the calls that are checked are those of cn, clsx, cva
\* and classnames: a violation in a call of one of the four is reported, and
\* a call of another name is not checked.
C20_DefaultFunctionsChecked ==
    ViolatingCallNoOptions =>
        (reports # <<>> <=> visited.callee.name \in DocumentedFunctions)

\* what the code does: without options only the calls of cn are checked
C20_OnlyCnByDefault ==
    ViolatingCallNoOptions => (reports # <<>> <=> visited.callee.name = <<"c", "n">>)

----------------------------------------------------------------------------
(* Claims on the arguments that are no strings *)

\* the string arguments of a call, in their order
LiteralSlots(arguments) == SelectSeq(arguments, LAMBDA a : a.type \in StringTypes)

\* C25: the report of a call of the standard pattern is that of the call with
\* its string arguments alone: the same messageId and the same modifiers in its
\* data, however many other arguments the call has and wherever they stand; so
\* two calls with the same string arguments in the same order get the same
\* verdict.
C25_VerdictOfLiteralSlots ==
    phase = "linted" =>
        /\ report.messageId = handleStandardFunctionCall(LiteralSlots(args)).messageId
        /\ report.data = handleStandardFunctionCall(LiteralSlots(args)).data

\* a reported call with another argument ahead of its string arguments
C25_Witness ==
    /\ phase = "linted"
    /\ Len(args) = 3
    /\ args[1].type \notin StringTypes
    /\ Len(LiteralSlots(args)) = 2
    /\ report.messageId = "splitModifier"
    /\ report.data # <<SAME_MODIFIER>>

\* C26: the options create() builds have a classFunctions list and a
\* classAttributes list that are not empty, whatever lists of strings are
\* configured, an empty list and a list of empty or whitespace-only strings
\* included.
C26_EffectiveListsNotEmpty ==
    vpc = "visited" =>
        /\ NormalizeOptions(given).classFunctions # <<>>
        /\ NormalizeOptions(given).classAttributes # <<>>

\* what the code does keep: the defaults in the place of a list that is absent
\* or empty
C26_EmptyListFallsBack ==
    vpc = "visited" =>
        /\ (given.classFunctions = Null \/ given.classFunctions = <<>>)
              => NormalizeOptions(given).classFunctions = DEFAULT_OPTIONS.classFunctions
        /\ (given.classAttributes = Null \/ given.classAttributes = <<>>)
              => NormalizeOptions(given).classAttributes = DEFAULT_OPTIONS.classAttributes

\* the position of the first class of a list that has the modifier
FirstSeen(classes, modifier) ==
    CHOOSE i \in 1..Len(classes) :
        /\ parseClass(classes[i]).modifier = modifier
        /\ \A j \in 1..(i - 1) : parseClass(classes[j]).modifier # modifier

\* groups is a stable partition of classes by modifier
StablePartition(classes, groups) ==
    /\ {groups[i].modifier : i \in 1..Len(groups)}
          = {parseClass(classes[i]).modifier : i \in 1..Len(classes)}
    /\ \A i, j \in 1..Len(groups) :
          i < j => /\ groups[i].modifier # groups[j].modifier
                   /\ FirstSeen(classes, groups[i].modifier)
                         < FirstSeen(classes, groups[j].modifier)
    /\ \A i \in 1..Len(groups) :
          groups[i].classes
             = SelectSeq(classes,
                         LAMBDA c : parseClass(c).modifier = groups[i].modifier)
    /\ Len(FlattenGroups(groups)) = Len(classes)
    /\ SameMultiset(FlattenGroups(groups), classes)

\* C27: groupClassesByModifier and createModifierGroups give a stable
\* partition: the keys are the distinct modifiers in the order they are first
\* seen, each group holds the classes of its modifier in their order in the
\* input, and the groups together are a permutation of the input.
C27_GroupingIsStablePartition ==
    spc = "sorted" =>
        /\ StablePartition(sclasses, groupClassesByModifier(sclasses))
        /\ StablePartition(sclasses,
              createModifierGroups([i \in 1..Len(sclasses) |-> parseClass(sclasses[i])]))

\* four classes of two modifiers, the classes of each modifier apart from each
\* other, and a last group that is not the last class's alone
C27_Witness ==
    /\ spc = "sorted"
    /\ Len(sclasses) = 4
    /\ Len(groupClassesByModifier(sclasses)) = 2
    /\ parseClass(sclasses[1]).modifier = parseClass(sclasses[3]).modifier
    /\ parseClass(sclasses[2]).modifier = parseClass(sclasses[4]).modifier
    /\ sclasses[1] # sclasses[3]
    /\ sclasses[2] # sclasses[4]

\* C28: the fix is a fixed point of the analysis: the call that results from
\* applying the fix of a reported call is analysed without a report.
C28_FixedCallIsClean ==
    phase = "fixed" => handleStandardFunctionCall(after) = NoReport

\* no string argument of the call has a backslash in it
NoBackslash(arguments) ==
    \A i \in 1..Len(arguments) :
        arguments[i].type \in StringTypes => "\\" \notin Range(arguments[i].value)

\* what the code does keep: the fixed call of a call without a backslash in
\* its strings is analysed without a report
C28_CleanWithoutBackslash ==
    (phase = "fixed" /\ NoBackslash(args)) => handleStandardFunctionCall(after) = NoReport

\* C29: for every reported call the planner returns a fix, and the strings of
\* the fix are not the non-empty string arguments of the call.
C29_ReportedCallHasFix ==
    (phase = "linted" /\ report # NoReport) =>
        /\ fix.ok
        /\ fix # NoFix
        /\ fix.newStringArguments # ClassStrings(extractArgumentInfo(args))

\* a reported call whose fix has as many strings as the call, beside an
\* argument that is no string
C29_Witness ==
    /\ phase = "linted"
    /\ report # NoReport
    /\ fix.ok
    /\ Len(fix.newStringArguments) = Len(ClassStrings(extractArgumentInfo(args)))
    /\ Len(fix.newStringArguments) >= 2
    /\ \E i \in 1..Len(args) : args[i].type \notin StringTypes

\* the class string report k is about: the string argument of a call of the
\* standard pattern, the base classes of a call with variants
ReportedContent(k) ==
    IF detected = "standard"
    THEN BaseValueClasses(visited.arguments[reports[k].loc[1]])
    ELSE extractBaseClasses(visited, detectFunctionPattern(visited))

\* C30: mixedBaseAndModifiers is reported only for a class string that mixes
\* base classes and modifier classes, in a string argument and in the base of
\* a call with variants alike; a class string with several modifier groups and
\* no base class is not reported as mixedBaseAndModifiers.
C30_MixedOnlyWhenMixing ==
    (vpc = "visited" /\ visited.type = "CallExpression") =>
        \A k \in 1..Len(reports) :
            reports[k].messageId = "mixedBaseAndModifiers"
                => mixesBaseAndModifiers(ReportedContent(k))

\* what the code does keep: C30 in the string arguments of the calls of the
\* standard pattern
C30_FlatMixedOnlyWhenMixing ==
    (vpc = "visited" /\ visited.type = "CallExpression" /\ detected = "standard")
        => C30_MixedOnlyWhenMixing

=============================================================================
